---- MODULE Spec2Model ----
(***************************************************************************)
(* Model of the smokeforge blueprint-audit scripts.  Every script is a     *)
(* batch program: it loads a blueprint document (and, for some scripts,    *)
(* chunk documents), walks it once and prints a report.  One execution     *)
(* runs one script; `script` names it and `pc` is the position inside it.  *)
(* Strings that the code inspects with regular expressions or substring    *)
(* tests are modelled as sequences of lexical tokens.                      *)
(***************************************************************************)
EXTENDS Integers, Sequences, FiniteSets, TLC

VARIABLES
    script,          \* which script this execution runs
    pc,              \* position inside the script
    \* ---- audit_locators.py
    page_locators,   \* [{'route', 'locs'}] built from bp['pages']
    pgi,             \* index of the next page of the `for pg in page_locators` loop
    PROBLEMS,        \* the PROBLEMS list
    by_cat,          \* the by_cat dict, as a sequence of <<cat, items>> in insertion order
    report,          \* the categories in the order the report prints them
    strict_failures,
    likely_failures,
    harmless,
    verdict,         \* the verdict line (audit_locators) or band (confidence_score)
    \* ---- the documents the blueprint scripts load
    bp,              \* blueprint.json: [auth, endpoints, pages]
    chunks,          \* the chunk documents, in sorted file order
    \* ---- confidence_score.py
    ci,              \* index of the next chunk of the `for cf in chunks` loop
    cnt,             \* the running counters of the script, by name
    risks,           \* the risks list
    score,           \* the confidence score
    \* ---- deep_validate.py
    dv,              \* the local variables of analyse_repo, by name
    \* ---- audit_blueprints.py
    ab,              \* errors, warnings, total_errors, total_warnings
    \* ---- validate_blueprints.py
    vb,              \* framework, section, issues_total and the findings printed
    exit_status,     \* the status the script exits with, Missing while it runs
    \* ---- validate_chunks.py
    vc,              \* rows, issues_all, cats and the order the summary prints them in
    \* ---- check_fk_coverage.py
    cov,             \* required_gaps and optional_gaps
    \* ---- verify_auth_fixes.py
    va               \* inherited, public_eps and the regression checks printed

locVars == <<page_locators, pgi, PROBLEMS, by_cat, report,
             strict_failures, likely_failures, harmless, verdict>>

docVars == <<bp, chunks>>

csVars == <<ci, cnt, risks, score>>

locVarsButVerdict == <<page_locators, pgi, PROBLEMS, by_cat, report,
                       strict_failures, likely_failures, harmless>>

bpVars == <<ab, vb, exit_status>>

ckVars == <<vc, cov, va>>

vars == <<script, pc, locVars, docVars, csVars, dv, bpVars, ckVars>>

(***************************************************************************)
(* Bounds of the model.                                                    *)
(***************************************************************************)
MaxLocs == 2        \* locators of one blueprint, over all its pages
MaxChunks == 2      \* chunk documents of one run
MaxZeroFk == 12     \* unresolvable required FK fields the scoring section is given
MaxCrossFk == 3     \* cross-chunk FK fields the scoring section is given
MaxPageRoutes == 6  \* page-route endpoints the scoring section is given
MaxScoredPages == 2 \* pages the scoring section is given
MaxEndpoints == 2   \* endpoints of one blueprint
MaxPages == 1       \* pages of one blueprint
MaxIssues == 21     \* endpoint issues the overall-score section is given

(***************************************************************************)
(* Generic helpers.                                                        *)
(***************************************************************************)
Range(s) == {s[i] : i \in 1..Len(s)}

RECURSIVE SeqSum(_)
SeqSum(s) == IF s = <<>> THEN 0 ELSE Head(s) + SeqSum(Tail(s))

\* the order in which the model lists ids
IdOrder == {<<x, y>> \in {"e1", "e2", "e9", "p1", "p9"} \X {"e1", "e2", "e9", "p1", "p9"} :
              \/ x = y
              \/ <<x, y>> \in {<<"e1", "e2">>, <<"e1", "e9">>, <<"e2", "e9">>, <<"p1", "p9">>}}

\* Python's min and max of two integers
Min(a, b) == IF a < b THEN a ELSE b
Max(a, b) == IF a > b THEN a ELSE b


(***************************************************************************)
(* The blueprint and chunk documents.  A JSON value that is null or whose  *)
(* key is absent is Missing; a record that may be null carries isNull.     *)
(* Where the code subscripts an optional key (d[k], not d.get(k)) the      *)
(* absent key is Absent, apart from the key that is there with null.       *)
(***************************************************************************)
Missing == "<missing>"

Absent == "<absent>"

\* the JSON number 0 and the JSON boolean false
JsonZero == "<0>"
JsonFalse == "<false>"

\* the test `v is not None` in the place of the truth value
TruthyNotNone(v) == v \notin {Missing, Absent}

\* Python truthiness of a JSON scalar: None, "", 0 and false are falsy
Truthy(v) == v \notin {Missing, Absent, "", JsonZero, JsonFalse}

\* bp.get("auth")
Auth(null, tt, login, tokenPath, email) ==
    [isNull |-> null, tokenType |-> tt, loginEndpoint |-> login,
     tokenResponsePath |-> tokenPath, defaultEmail |-> email, type |-> Missing,
     defaultPassword |-> IF email \in {Missing, ""} THEN Missing ELSE "secret",
     credentials |-> [email |-> Missing, password |-> Missing]]

AuthNull == Auth(TRUE, Missing, Missing, Missing, Missing)
AuthFull == Auth(FALSE, "bearer_jwt", "/api/login", "accessToken", "admin@example.com")

AuthCases ==
    {AuthNull, AuthFull,
     Auth(FALSE, "bearer_jwt", "/api/login", "accessToken", Missing),
     Auth(FALSE, "bearer_jwt", "/api/login", "accessToken", ""),
     Auth(FALSE, "bearer_jwt", "/api/login", Missing, "admin@example.com"),
     Auth(FALSE, "bearer_jwt", "/api/login", Missing, Missing),
     Auth(FALSE, "session_cookie", "/login", Missing, "admin@example.com"),
     Auth(FALSE, Missing, "/api/login", Missing, "admin@example.com"),
     Auth(FALSE, "session_cookie", Missing, Missing, "admin@example.com")}

\* auth objects that name the token type under "type" or carry seed credentials
AuthTyped == [Auth(FALSE, Missing, "/login", Missing, "admin@example.com") EXCEPT !.type = "session"]
AuthSeeded == [AuthFull EXCEPT !.credentials = [email |-> "admin@example.com", password |-> "secret"]]

\* auth objects with defaultEmail and without the key defaultPassword, or with null for it
AuthNoPassword == [AuthSeeded EXCEPT !.defaultPassword = Absent]
AuthNullPassword == [AuthSeeded EXCEPT !.defaultPassword = Missing]

\* a body field; its name is a sequence of tokens, as "customer" "Id"
Field(nm, req, ex) == [name |-> nm, required |-> req, example |-> ex, type |-> "string"]

\* ep.get("requestBody"): null, or an object with a fields list
NullBody == [isNull |-> TRUE, fields |-> <<>>, inferred |-> Missing]
Body(fields) == [isNull |-> FALSE, fields |-> fields, inferred |-> Missing]

\* an endpoint of the blueprint or of a chunk
Endpoint(id, method, path, body) ==
    [id |-> id, method |-> method, path |-> path, requestBody |-> body,
     pathParams |-> <<>>, queryParams |-> <<>>, authRequired |-> "true", isPageRoute |-> FALSE,
     responseSchema |-> "schema", authType |-> "session", confidence |-> 90, flags |-> {}]

\* a locator of a page: its name, its playwrightCode as tokens, its confidence in
\* hundredths
ChunkLocator(nm, code, conf) == [name |-> nm, playwrightCode |-> code, confidence |-> conf]

\* a page of the blueprint or of a chunk; nLocators is len(locators), confidence is in
\* hundredths
Page(id, route, nlocs) ==
    [id |-> id, route |-> route, title |-> "Orders", nLocators |-> nlocs,
     authRequired |-> "true", isDynamic |-> FALSE, routeParams |-> <<>>,
     locators |-> [k \in 1..nlocs |-> ChunkLocator("Save", <<"page.", "getByRole">>, 90)],
     confidence |-> 90]

\* a line of a chunk's llmUserMessage: the field names it holds as substrings, and
\* which of the marker texts it holds
MsgLine(names, fk, noList, cross) ==
    [names |-> names, fk |-> fk, noList |-> noList, cross |-> cross]

\* a chunk document: data["chunk"]["endpoints"], data["chunk"]["pages"],
\* data["llmUserMessage"] split in lines, whether that message has 100 characters,
\* data["chunk"]["auth"]["tokenType"] and data["chunk"]["domain"]
ChunkDoc(eps, pgs, msg, long) ==
    [endpoints |-> eps, pages |-> pgs, msg |-> msg, longMsg |-> long,
     tokenType |-> "session_cookie", domain |-> "orders"]

NoBlueprint == [auth |-> AuthNull, endpoints |-> <<>>, pages |-> <<>>]

\* the local variables of analyse_repo before its first loop
DvStart ==
    [issues_ep |-> <<>>, ep_ids_in_bp |-> {}, issues_pages |-> <<>>, page_ids_in_bp |-> {},
     ep_ids_in_chunks |-> {}, page_ids_in_chunks |-> {}, issues_chunks |-> <<>>,
     missing_ep |-> {}, missing_pg |-> {}, total_issues |-> 0, confidence |-> 100,
     hashseed |-> 0, printed_ep |-> <<>>, printed_pg |-> <<>>]

\* audit_blueprints.py before its first blueprint
AbStart == [errors |-> <<>>, warnings |-> <<>>, total_errors |-> 0, total_warnings |-> 0]

\* validate_blueprints.py before a validate function runs
VbStart ==
    [framework |-> "", sec |-> 1, issues_total |-> 0, out |-> <<>>, source_routes |-> <<>>]

\* the variables of audit_blueprints.py and validate_blueprints.py in a run of another script
BpIdle == ab = AbStart /\ vb = VbStart /\ exit_status = Missing

\* validate_chunks.py before its first chunk
VcStart ==
    [fi |-> 1, rows |-> <<>>, issues_all |-> <<>>, cats |-> <<>>, summary |-> <<>>,
     ok_count |-> 0, bad_count |-> 0]

\* check_fk_coverage.py before its endpoint loop
CovStart == [required_gaps |-> <<>>, optional_gaps |-> <<>>]

\* verify_auth_fixes.py before its first line
VaStart == [inherited |-> <<>>, public_eps |-> <<>>, checks |-> <<>>]

\* the variables of validate_chunks.py, check_fk_coverage.py and verify_auth_fixes.py
\* in a run of another script
CkIdle == vc = VcStart /\ cov = CovStart /\ va = VaStart

\* the counters of confidence_score.py as they are set at the top of the repo loop
ZeroCounters ==
    [total_ep |-> 0, total_pages |-> 0, locator_pages |-> 0, total_locators |-> 0,
     ep_with_zero_get_fk |-> 0, ep_with_crosschunk_fk |-> 0,
     ep_page_routes |-> 0, ep_api_routes |-> 0]

(***************************************************************************)
(* audit_locators.py -- selector code as token sequences.                  *)
(***************************************************************************)
WS == " "

\* page.getByRole('<r>')
SelRole(r) == <<"page.", "getByRole('", r, "')">>
\* page.getByRole('<r>', { name: '<n>' })
SelRoleNamed(r, n) == <<"page.", "getByRole('", r, "', { name: '">> \o n \o <<"' })">>

SelButton        == SelRole("button")
SelButtonPadded  == SelRole("button") \o <<WS>>
SelButtonNamed   == SelRoleNamed("button", <<"Save">>)
SelButtonFirst   == SelRole("button") \o <<".first()">>
SelRowThenButton == SelRoleNamed("row", <<"Save">>) \o <<".", "getByRole('", "button", "')">>
SelMain          == SelRole("main")
SelHeadingParen  == SelRoleNamed("heading", <<"Patients ", "(">>)
SelLabel         == <<"page.", "getByLabel('Email')">>
\* heading lookups whose code breaks off after the "(" or closes without the brace
SelHeadingParenOpen  == <<"page.", "getByRole('", "heading", "', { name: '", "Patients ", "(">>
SelHeadingParenShort == <<"page.", "getByRole('", "heading", "', { name: '", "Patients ", "(", "')">>
SelMissing       == <<>>

Selectors == {SelButton, SelButtonPadded, SelButtonNamed, SelButtonFirst,
              SelRowThenButton, SelMain, SelHeadingParen, SelHeadingParenOpen,
              SelHeadingParenShort, SelLabel, SelMissing}

\* str.strip(): drop leading and trailing whitespace
RECURSIVE LStrip(_)
LStrip(s) == IF s # <<>> /\ Head(s) = WS THEN LStrip(Tail(s)) ELSE s
RECURSIVE RStrip(_)
RStrip(s) == IF s # <<>> /\ s[Len(s)] = WS THEN RStrip(SubSeq(s, 1, Len(s) - 1)) ELSE s
Strip(s) == RStrip(LStrip(s))

\* the role alternation of the UNQUALIFIED_ROLE regular expression
InteractiveRoles == {"textbox", "combobox", "spinbutton", "button", "link",
                     "checkbox", "radio", "tab", "menuitem"}

\* UnqualifiedAt without the closing "')" of the pattern: a lookup that goes on with
\* a { name: } option matches too
UnqualifiedAtNoClose(pw) ==
    {i \in 1..Len(pw) :
        /\ i + 1 <= Len(pw)
        /\ pw[i] = "getByRole('"
        /\ pw[i + 1] \in InteractiveRoles}

\* re.search(r"getByRole\('(textbox|...|menuitem)'\)\s*$", pw): the positions where
\* an unqualified interactive role lookup is followed only by whitespace up to the end
UnqualifiedAt(pw) ==
    {i \in 1..Len(pw) :
        /\ i + 2 <= Len(pw)
        /\ pw[i] = "getByRole('"
        /\ pw[i + 1] \in InteractiveRoles
        /\ pw[i + 2] = "')"
        /\ \A j \in (i + 3)..Len(pw) : pw[j] = WS}

unqualified_match(pw) == UnqualifiedAt(pw) # {}

\* unqualified_match.group(1)
MatchedRole(pw) == pw[(CHOOSE i \in UnqualifiedAt(pw) : \A j \in UnqualifiedAt(pw) : i <= j) + 1]

\* 'heading' in pw
HasHeading(pw) == \E i \in 1..Len(pw) : pw[i] = "heading"

\* re.search(r"name: '.*\($'\)", pw): the pattern puts the end-of-string anchor
\* between the "(" and the closing "')", so the two characters "')" would have to
\* follow the end of the string
HeadingPartialMatch(pw) ==
    \E i \in 1..Len(pw) : \E j \in (i + 1)..Len(pw) :
        /\ pw[i] = "', { name: '"
        /\ pw[j] = "("
        /\ j = Len(pw)
        /\ j + 1 <= Len(pw)
        /\ pw[j + 1] = "')"

\* "getByRole('main')" in pw
HasRoleMain(pw) ==
    \E i \in 1..Len(pw) :
        i + 2 <= Len(pw) /\ pw[i] = "getByRole('" /\ pw[i + 1] = "main" /\ pw[i + 2] = "')"

\* A locator of the blueprint.  name is loc.get('name'), code is the raw
\* loc.get('playwrightCode', ''), flags is loc.get('flags', []).
Locator(n, code, fl, inter, cond) ==
    [name |-> n, playwrightCode |-> code, flags |-> fl,
     isInteractive |-> inter, isConditional |-> cond]

\* the names the blueprint gives its locators, by position on the page
LocNameSeq == <<"email", "save", "submit", "cancel">>
FlagSets == {{}, {"DYNAMIC_LIST"}}

\* the locator shapes the inputs are drawn from (the name is set by position)
LocatorCases ==
    {Locator("", c, {}, TRUE, FALSE) :
        c \in {SelButton, SelButtonPadded, SelButtonNamed, SelButtonFirst, SelRowThenButton}}
    \cup {Locator("", SelButton, {}, FALSE, FALSE)}
    \cup {Locator("", SelLabel, f, i, d) : f \in FlagSets, i \in BOOLEAN, d \in BOOLEAN}
    \cup {Locator("", c, {}, FALSE, FALSE) : c \in {SelMain, SelHeadingParen, SelHeadingParenOpen, SelHeadingParenShort, SelMissing}}

\* page.get('locators', []) of a page whose locators have the given shapes
Named(shapes) == [i \in 1..Len(shapes) |-> [shapes[i] EXCEPT !.name = LocNameSeq[i]]]

\* page_locators of a blueprint of np pages (routes "/a" and "/b"): the first page
\* has the first `split` shapes, the second page the others
MakePages(shapes, split, np) ==
    IF np = 0 THEN <<>>
    ELSE IF np = 1 THEN <<[route |-> "/a", locs |-> Named(shapes)]>>
    ELSE <<[route |-> "/a", locs |-> Named(SubSeq(shapes, 1, split))],
           [route |-> "/b", locs |-> Named(SubSeq(shapes, split + 1, Len(shapes)))]>>

\* pw_codes_on_page[pw]: the names of the page's locators whose stripped code is pw
RECURSIVE NamesSharing(_, _)
NamesSharing(locs, pw) ==
    IF locs = <<>> THEN <<>>
    ELSE (IF Strip(Head(locs).playwrightCode) = pw /\ pw # <<>>
          THEN <<Head(locs).name>> ELSE <<>>) \o NamesSharing(Tail(locs), pw)

pw_codes_on_page(locs, pw) == NamesSharing(locs, pw)

Problem(cat, detail) == [cat |-> cat, detail |-> detail]

\* the seven rules of the `for loc in locs` body, in the order they append
RuleUnqualifiedRole(loc, pw) ==
    IF unqualified_match(pw) /\ loc.isInteractive
    THEN <<Problem("UNQUALIFIED_ROLE", <<MatchedRole(pw)>>)>> ELSE <<>>

\* RuleDuplicateOnPage reporting the first locator of a sharing set only
RuleDuplicateOnFirstOnly(locs, loc, pw) ==
    IF pw # <<>> /\ Len(pw_codes_on_page(locs, pw)) > 1
       /\ loc.name = pw_codes_on_page(locs, pw)[1]
    THEN <<Problem("DUPLICATE_ON_PAGE", pw_codes_on_page(locs, pw))>> ELSE <<>>

RuleDuplicateOnPage(locs, loc, pw) ==
    IF pw # <<>> /\ Len(pw_codes_on_page(locs, pw)) > 1
    THEN <<Problem("DUPLICATE_ON_PAGE", pw_codes_on_page(locs, pw))>> ELSE <<>>

RuleDynamicListInteractive(loc) ==
    IF "DYNAMIC_LIST" \in loc.flags /\ loc.isInteractive
    THEN <<Problem("DYNAMIC_LIST_INTERACTIVE", <<>>)>> ELSE <<>>

RuleDynamicListView(loc) ==
    IF "DYNAMIC_LIST" \in loc.flags /\ ~loc.isInteractive
    THEN <<Problem("DYNAMIC_LIST_VIEW", <<>>)>> ELSE <<>>

RuleHeadingPartial(pw) ==
    IF HasHeading(pw) /\ HeadingPartialMatch(pw)
    THEN <<Problem("HEADING_PARTIAL", <<>>)>> ELSE <<>>

RuleRoleMain(pw) ==
    IF HasRoleMain(pw) THEN <<Problem("ROLE_MAIN", <<>>)>> ELSE <<>>

RuleConditional(loc) ==
    IF loc.isConditional THEN <<Problem("CONDITIONAL", <<>>)>> ELSE <<>>

\* the `problems` list of one locator
LocProblems(locs, loc) ==
    LET pw == Strip(loc.playwrightCode)
    IN  RuleUnqualifiedRole(loc, pw) \o RuleDuplicateOnPage(locs, loc, pw)
        \o RuleDynamicListInteractive(loc) \o RuleDynamicListView(loc)
        \o RuleHeadingPartial(pw) \o RuleRoleMain(pw) \o RuleConditional(loc)

\* the PROBLEMS entry appended for a locator that has problems
Entry(route, locs, loc) ==
    [route |-> route, name |-> loc.name, pw |-> Strip(loc.playwrightCode),
     interactive |-> loc.isInteractive, problems |-> LocProblems(locs, loc)]

\* the entries one page appends to PROBLEMS: `for loc in locs: ... if problems:`
RECURSIVE PageEntries(_, _, _)
PageEntries(route, locs, rest) ==
    IF rest = <<>> THEN <<>>
    ELSE (IF LocProblems(locs, Head(rest)) # <<>>
          THEN <<Entry(route, locs, Head(rest))>> ELSE <<>>)
         \o PageEntries(route, locs, Tail(rest))

\* cat = prob.split(' -')[0].split(':')[0]
CatOf(prob) == prob.cat

\* `k in prob` for a category tag k: the tag is a substring of the problem text.  No
\* tag is a substring of another problem's tag or explanatory text, and the names and
\* roles interpolated into the text hold no tag, so the text holds k exactly when its
\* own tag is k.
InProb(k, prob) == prob.cat = k

\* by_cat after `by_cat[cat].append(p)` for entry number n
RECURSIVE AppendCat(_, _, _)
AppendCat(bc, cat, n) ==
    IF bc = <<>> THEN <<[cat |-> cat, items |-> <<n>>]>>
    ELSE IF Head(bc).cat = cat
         THEN <<[Head(bc) EXCEPT !.items = Append(@, n)]>> \o Tail(bc)
         ELSE <<Head(bc)>> \o AppendCat(Tail(bc), cat, n)

RECURSIVE GroupProbs(_, _, _)
GroupProbs(bc, probs, n) ==
    IF probs = <<>> THEN bc
    ELSE GroupProbs(AppendCat(bc, CatOf(Head(probs)), n), Tail(probs), n)

\* `for p in PROBLEMS: for prob in p['problems']`, from entry number n on
RECURSIVE GroupByCat(_, _, _)
GroupByCat(bc, P, n) ==
    IF n > Len(P) THEN bc
    ELSE GroupByCat(GroupProbs(bc, P[n].problems, n), P, n + 1)

\* sorted(by_cat.items(), key=lambda x: -len(x[1])): a stable sort, most items first
RECURSIVE InsertByCount(_, _)
InsertByCount(sorted, x) ==
    IF sorted = <<>> THEN <<x>>
    ELSE IF Len(Head(sorted).items) >= Len(x.items)
         THEN <<Head(sorted)>> \o InsertByCount(Tail(sorted), x)
         ELSE <<x>> \o sorted

RECURSIVE SortByCount(_, _)
SortByCount(sorted, rest) ==
    IF rest = <<>> THEN sorted
    ELSE SortByCount(InsertByCount(sorted, Head(rest)), Tail(rest))

\* StrictKeys with the conditional tag listed among the strict ones
StrictKeysWithConditional ==
    {"UNQUALIFIED_ROLE", "DUPLICATE_ON_PAGE", "DYNAMIC_LIST_INTERACTIVE", "CONDITIONAL"}

StrictKeys == {"UNQUALIFIED_ROLE", "DUPLICATE_ON_PAGE", "DYNAMIC_LIST_INTERACTIVE"}

\* any(k in prob for prob in p['problems'] for k in [...])
IsStrict(p) == \E i \in 1..Len(p.problems) : \E k \in StrictKeys : InProb(k, p.problems[i])
\* any('CONDITIONAL' in prob for prob in p['problems'])
IsLikely(p) == \E i \in 1..Len(p.problems) : InProb("CONDITIONAL", p.problems[i])

\* the harmless list when only the strict failures are left out
HarmlessNotStrict(P, strict, likely) ==
    SelectSeq(P, LAMBDA p : p \notin Range(strict))

\* harmless = [p for p in PROBLEMS if p not in strict_failures and p not in likely_failures]
Harmless(P, strict, likely) ==
    SelectSeq(P, LAMBDA p : p \notin Range(strict) /\ p \notin Range(likely))

\* the verdict line of the report
VerdictOf(strict, likely) ==
    IF strict # <<>> THEN "NO - fix strict failures first"
    ELSE IF likely # <<>> THEN "LIKELY YES - with caveats" ELSE "YES - locators look clean"

InitLocators ==
    /\ script = "audit_locators"
    /\ pc = "audit"
    /\ \E k \in 0..MaxLocs : \E shapes \in [1..k -> LocatorCases] :
          \E np \in 0..2 : \E split \in 0..k :
             /\ np = 0 => k = 0
             /\ np < 2 => split = 0
             /\ page_locators = MakePages(shapes, split, np)
    /\ pgi = 1
    /\ PROBLEMS = <<>>
    /\ by_cat = <<>>
    /\ report = <<>>
    /\ strict_failures = <<>>
    /\ likely_failures = <<>>
    /\ harmless = <<>>
    /\ verdict = ""
    /\ bp = NoBlueprint /\ chunks = <<>>
    /\ ci = 1 /\ cnt = ZeroCounters /\ risks = <<>> /\ score = 100
    /\ dv = DvStart
    /\ BpIdle /\ CkIdle

\* one iteration of `for pg in page_locators`
AuditPage ==
    /\ script = "audit_locators" /\ pc = "audit"
    /\ pgi <= Len(page_locators)
    /\ LET pg == page_locators[pgi]
       IN  PROBLEMS' = PROBLEMS \o PageEntries(pg.route, pg.locs, pg.locs)
    /\ pgi' = pgi + 1
    /\ UNCHANGED <<script, pc, page_locators, by_cat, report,
                   strict_failures, likely_failures, harmless, verdict>>
    /\ UNCHANGED <<docVars, csVars, dv, bpVars, ckVars>>

\* the REPORT section: group the problems by category, print most frequent first
Report ==
    /\ script = "audit_locators" /\ pc = "audit"
    /\ pgi > Len(page_locators)
    /\ by_cat' = GroupByCat(<<>>, PROBLEMS, 1)
    /\ report' = SortByCount(<<>>, by_cat')
    /\ pc' = "verdict"
    /\ UNCHANGED <<script, page_locators, pgi, PROBLEMS,
                   strict_failures, likely_failures, harmless, verdict>>
    /\ UNCHANGED <<docVars, csVars, dv, bpVars, ckVars>>

\* the WILL-IT-PASS VERDICT section
Verdict ==
    /\ script = "audit_locators" /\ pc = "verdict"
    /\ strict_failures' = SelectSeq(PROBLEMS, IsStrict)
    /\ likely_failures' = SelectSeq(PROBLEMS, IsLikely)
    /\ harmless' = Harmless(PROBLEMS, strict_failures', likely_failures')
    /\ verdict' = VerdictOf(strict_failures', likely_failures')
    /\ pc' = "done"
    /\ UNCHANGED <<script, page_locators, pgi, PROBLEMS, by_cat, report>>
    /\ UNCHANGED <<docVars, csVars, dv, bpVars, ckVars>>

NextLocators == AuditPage \/ Report \/ Verdict

SpecLocators == InitLocators /\ [][NextLocators]_vars

(***************************************************************************)
(* Properties of audit_locators.py.                                        *)
(***************************************************************************)
LocDone == script = "audit_locators" /\ pc = "done"

\* the locators of the blueprint, as <<page number, locator number>>
LocIds == {<<g, i>> : g \in 1..Len(page_locators), i \in 1..MaxLocs + 1}
AllLocs == {id \in LocIds : id[2] <= Len(page_locators[id[1]].locs)}
LocAt(id) == page_locators[id[1]].locs[id[2]]
RouteAt(id) == page_locators[id[1]].route

\* the PROBLEMS entries of a locator
EntriesOf(id) ==
    {n \in 1..Len(PROBLEMS) :
        PROBLEMS[n].route = RouteAt(id) /\ PROBLEMS[n].name = LocAt(id).name}

\* the findings of a category reported for a locator, as <<entry, problem number>>
FindingsOf(id, cat) ==
    {<<n, k>> \in EntriesOf(id) \X (1..7) :
        k <= Len(PROBLEMS[n].problems) /\ PROBLEMS[n].problems[k].cat = cat}

\* the selector code, trimmed, ends in getByRole('<interactive role>')
EndsUnqualified(code) ==
    LET pw == Strip(code)
    IN  /\ Len(pw) >= 3
        /\ pw[Len(pw) - 2] = "getByRole('"
        /\ pw[Len(pw) - 1] \in InteractiveRoles
        /\ pw[Len(pw)] = "')"

\* the selector code, trimmed, ends in getByRole('<interactive role>', { name: '...' })
EndsQualified(code) ==
    LET pw == Strip(code)
    IN  /\ pw # <<>>
        /\ pw[Len(pw)] = "' })"
        /\ \E i \in 1..Len(pw) :
              /\ i + 2 <= Len(pw)
              /\ pw[i] = "getByRole('"
              /\ pw[i + 1] \in InteractiveRoles
              /\ pw[i + 2] = "', { name: '"
              /\ \A j \in (i + 1)..Len(pw) : pw[j] # "getByRole('"

CountedStrict(id) == \E n \in EntriesOf(id) : PROBLEMS[n] \in Range(strict_failures)

\* C1 as stated: every locator whose selector is an unqualified lookup of an
\* interactive role gets UNQUALIFIED_ROLE and is counted as a strict failure, whether
\* or not it is interactive; a qualified lookup never gets it.
C1_AsStated ==
    LocDone =>
        \A id \in AllLocs :
            /\ EndsUnqualified(LocAt(id).playwrightCode)
                  => FindingsOf(id, "UNQUALIFIED_ROLE") # {} /\ CountedStrict(id)
            /\ EndsQualified(LocAt(id).playwrightCode)
                  => FindingsOf(id, "UNQUALIFIED_ROLE") = {}

\* C1 (amended): every locator with isInteractive = true whose selector code ends in
\* an unqualified lookup of an interactive role gets exactly one UNQUALIFIED_ROLE
\* finding, naming the role, and is counted among the strict failures; with
\* isInteractive = false it gets none; and a locator whose role lookup carries a
\* qualifying name never gets UNQUALIFIED_ROLE.
C1_UnqualifiedRole ==
    LocDone =>
        \A id \in AllLocs :
            /\ EndsUnqualified(LocAt(id).playwrightCode) /\ LocAt(id).isInteractive
                  => /\ Cardinality(FindingsOf(id, "UNQUALIFIED_ROLE")) = 1
                     /\ \A f \in FindingsOf(id, "UNQUALIFIED_ROLE") :
                           PROBLEMS[f[1]].problems[f[2]].detail
                              = <<Strip(LocAt(id).playwrightCode)[Len(Strip(LocAt(id).playwrightCode)) - 1]>>
                     /\ CountedStrict(id)
            /\ ~LocAt(id).isInteractive => FindingsOf(id, "UNQUALIFIED_ROLE") = {}
            /\ EndsQualified(LocAt(id).playwrightCode)
                  => FindingsOf(id, "UNQUALIFIED_ROLE") = {}

\* a finished audit with an interactive unqualified role locator that was reported
\* and counted strict, next to an interactive locator with a qualified role lookup
C1_Witness ==
    /\ LocDone
    /\ \E id \in AllLocs :
          /\ EndsUnqualified(LocAt(id).playwrightCode) /\ LocAt(id).isInteractive
          /\ FindingsOf(id, "UNQUALIFIED_ROLE") # {} /\ CountedStrict(id)
    /\ \E id \in AllLocs :
          EndsQualified(LocAt(id).playwrightCode) /\ LocAt(id).isInteractive

\* the locators of a page whose trimmed selector code is pw
Sharing(g, pw) ==
    {id \in AllLocs : id[1] = g /\ Strip(LocAt(id).playwrightCode) = pw}

\* the sets of two or more locators of one page with the same non-empty code
SharingSets ==
    {Sharing(id[1], Strip(LocAt(id).playwrightCode)) : id \in
        {x \in AllLocs : Strip(LocAt(x).playwrightCode) # <<>>
                         /\ Cardinality(Sharing(x[1], Strip(LocAt(x).playwrightCode))) >= 2}}

DupFindings(S) == UNION {FindingsOf(id, "DUPLICATE_ON_PAGE") : id \in S}

\* the names of the locators of S, in page order
RECURSIVE NamesInOrder(_, _)
NamesInOrder(S, i) ==
    IF i > MaxLocs + 1 THEN <<>>
    ELSE (IF \E id \in S : id[2] = i THEN <<LocNameSeq[i]>> ELSE <<>>) \o NamesInOrder(S, i + 1)

\* C2 as stated: a set of two or more locators of one page sharing their selector
\* code yields exactly one DUPLICATE_ON_PAGE finding, which lists all their names.
C2_AsStated ==
    LocDone =>
        \A S \in SharingSets :
            /\ Cardinality(DupFindings(S)) = 1
            /\ \A f \in DupFindings(S) :
                  PROBLEMS[f[1]].problems[f[2]].detail = NamesInOrder(S, 1)

\* C2 (amended): DUPLICATE_ON_PAGE is emitted once for every locator of a set of two
\* or more locators of one page that share the same non-empty selector code (compared
\* after trimming), so a set of n locators yields n findings; every one of them lists
\* the names of all n locators; a locator whose code is empty or is shared with no
\* other locator of its page gets none.
C2_DuplicatePerLocator ==
    LocDone =>
        /\ \A S \in SharingSets :
              /\ Cardinality(DupFindings(S)) = Cardinality(S)
              /\ \A id \in S : Cardinality(FindingsOf(id, "DUPLICATE_ON_PAGE")) = 1
              /\ \A f \in DupFindings(S) :
                    PROBLEMS[f[1]].problems[f[2]].detail = NamesInOrder(S, 1)
        /\ \A id \in AllLocs :
              (\A S \in SharingSets : id \notin S) => FindingsOf(id, "DUPLICATE_ON_PAGE") = {}

\* a finished audit of a page on which two locators share their selector code
C2_Witness ==
    /\ LocDone
    /\ \E S \in SharingSets : Cardinality(S) >= 2 /\ Cardinality(DupFindings(S)) >= 2

\* the severity the taxonomy gives each category of the locator audit
Severity(cat) ==
    IF cat \in {"UNQUALIFIED_ROLE", "DUPLICATE_ON_PAGE", "DYNAMIC_LIST_INTERACTIVE"}
    THEN "BLOCKING"
    ELSE IF cat = "CONDITIONAL" THEN "LIKELY" ELSE "ADVISORY"

\* the severities of all findings of the audit
SeveritiesFound ==
    {Severity(PROBLEMS[n].problems[k].cat) :
        <<n, k>> \in {x \in (1..Len(PROBLEMS)) \X (1..7) : x[2] <= Len(PROBLEMS[x[1]].problems)}}

\* C8: the verdict of the locator audit depends on the severities of the findings
\* alone: "NO" when a BLOCKING finding exists, "LIKELY YES" when none is BLOCKING and
\* one is LIKELY, "YES" otherwise, ADVISORY findings or not.
C8_VerdictFromSeverities ==
    LocDone =>
        verdict = (IF "BLOCKING" \in SeveritiesFound THEN "NO - fix strict failures first"
                   ELSE IF "LIKELY" \in SeveritiesFound THEN "LIKELY YES - with caveats"
                   ELSE "YES - locators look clean")

\* a finished audit that reports ADVISORY findings only and still says "YES"
C8_Witness ==
    /\ LocDone
    /\ SeveritiesFound = {"ADVISORY"}
    /\ verdict = "YES - locators look clean"

(***************************************************************************)
(* confidence_score.py                                                     *)
(***************************************************************************)
\* re.search(r'Id$', name, re.I): the name ends in "id", in any letter case
EndsInIdAnyCase(name) == name # <<>> /\ name[Len(name)] \in {"Id", "ID", "id", "iD"}

\* what the chunk message says about a required FK field: the first line that holds
\* the field name and "FK" decides
FieldLines(f, msg) == SelectSeq(msg, LAMBDA l : f.name \in l.names /\ l.fk)

FieldOutcome(f, msg) ==
    IF ~(EndsInIdAnyCase(f.name) /\ f.required) THEN "none"
    ELSE IF FieldLines(f, msg) = <<>> THEN "none"
    ELSE IF FieldLines(f, msg)[1].noList THEN "zero"
    ELSE IF FieldLines(f, msg)[1].cross THEN "cross"
    ELSE "none"

\* the outcomes of the fields of one endpoint: `body = ep.get("requestBody", {})`,
\* `if body: for f in body.get("fields", [])`
EpOutcomes(ep, msg) ==
    IF ep.requestBody.isNull THEN <<>>
    ELSE [k \in 1..Len(ep.requestBody.fields) |-> FieldOutcome(ep.requestBody.fields[k], msg)]

RECURSIVE ChunkOutcomes(_, _)
ChunkOutcomes(eps, msg) ==
    IF eps = <<>> THEN <<>>
    ELSE EpOutcomes(Head(eps), msg) \o ChunkOutcomes(Tail(eps), msg)

CountOf(seq, x) == Cardinality({k \in 1..Len(seq) : seq[k] = x})

FkRisk == "REQUIRED FK with no GET"

\* the counters after one iteration of `for cf in chunks`
CountChunk(c, ch) ==
    LET out == ChunkOutcomes(ch.endpoints, ch.msg)
        pageRoutes == CountOf([k \in 1..Len(ch.endpoints) |-> ch.endpoints[k].isPageRoute], TRUE)
        withLocs == CountOf([k \in 1..Len(ch.pages) |-> ch.pages[k].nLocators > 0], TRUE)
    IN  [total_ep |-> c.total_ep + Len(ch.endpoints),
         total_pages |-> c.total_pages + Len(ch.pages),
         locator_pages |-> c.locator_pages + withLocs,
         total_locators |-> c.total_locators
                              + SeqSum([k \in 1..Len(ch.pages) |-> ch.pages[k].nLocators]),
         ep_with_zero_get_fk |-> c.ep_with_zero_get_fk + CountOf(out, "zero"),
         ep_with_crosschunk_fk |-> c.ep_with_crosschunk_fk + CountOf(out, "cross"),
         ep_page_routes |-> c.ep_page_routes + pageRoutes,
         ep_api_routes |-> c.ep_api_routes + (Len(ch.endpoints) - pageRoutes)]

\* AuthPenalty charging the seed credentials to a null auth as well
AuthPenaltyStacked(auth) ==
    (IF auth.isNull THEN 20 ELSE 0)
    + (IF ~Truthy(auth.defaultEmail) THEN 15 ELSE 0)
    + (IF auth.tokenType = "bearer_jwt" /\ ~Truthy(auth.tokenResponsePath) THEN 5 ELSE 0)

\* the Auth penalties block; `not auth` holds for a null auth
AuthPenalty(auth) ==
    IF auth.isNull THEN 20
    ELSE (IF ~Truthy(auth.defaultEmail) THEN 15 ELSE 0)
         + (IF auth.tokenType = "bearer_jwt" /\ ~Truthy(auth.tokenResponsePath) THEN 5 ELSE 0)

\* PageRoutePenalty without its cap
PageRoutePenaltyUncapped(n) == IF n > 0 THEN n * 3 ELSE 0

\* the penalty of the page-route endpoints
PageRoutePenalty(n) == IF n > 0 THEN Min(n * 3, 15) ELSE 0

\* the score before `score = max(0, min(100, score))`
RawScore(auth, c) ==
    100 - AuthPenalty(auth)
        - (IF c.ep_with_zero_get_fk > 0 THEN c.ep_with_zero_get_fk * 5 ELSE 0)
        - (IF c.ep_with_crosschunk_fk > 0 THEN c.ep_with_crosschunk_fk * 2 ELSE 0)
        - PageRoutePenalty(c.ep_page_routes)
        - (IF c.total_pages - c.locator_pages > 0
           THEN (c.total_pages - c.locator_pages) * 2 ELSE 0)

\* Clamp without its lower limit
ClampAbove(x) == Min(100, x)

Clamp(x) == Max(0, Min(100, x))

ConfidenceScore(auth, c) == Clamp(RawScore(auth, c))

\* the band with the HIGH threshold compared strictly
BandStrict(sc) ==
    IF sc > 85 THEN "HIGH"
    ELSE IF sc >= 70 THEN "MEDIUM-HIGH"
    ELSE IF sc >= 55 THEN "MEDIUM"
    ELSE "LOW"

\* the Confidence map
Band(sc) ==
    IF sc >= 85 THEN "HIGH"
    ELSE IF sc >= 70 THEN "MEDIUM-HIGH"
    ELSE IF sc >= 55 THEN "MEDIUM"
    ELSE "LOW"

\* the risks list after the Auth penalties block
RisksAfterAuth(auth, r) ==
    IF auth.isNull THEN <<"NO auth detected">> \o r
    ELSE (IF ~Truthy(auth.defaultEmail) THEN <<"No defaultEmail in auth">> ELSE <<>>) \o r
         \o (IF auth.tokenType = "bearer_jwt" /\ ~Truthy(auth.tokenResponsePath)
             THEN <<"bearer_jwt but no tokenResponsePath">> ELSE <<>>)

\* the endpoints, message lines and pages the chunks of the model are made of
FkCustomer == <<"customer", "Id">>
FkPaid == <<"pa", "id">>
PlainName == <<"name">>

CsEndpointLists ==
    {<<>>,
     <<[Endpoint("e1", "GET", <<"/orders">>, NullBody) EXCEPT !.isPageRoute = TRUE]>>,
     <<Endpoint("e1", "GET", <<"/orders">>, NullBody)>>,
     <<Endpoint("e1", "POST", <<"/orders">>, Body(<<Field(FkCustomer, TRUE, Missing)>>))>>,
     <<Endpoint("e1", "POST", <<"/orders">>, Body(<<Field(FkCustomer, FALSE, Missing)>>))>>,
     <<Endpoint("e1", "POST", <<"/orders">>, Body(<<Field(FkPaid, TRUE, Missing)>>))>>,
     <<Endpoint("e1", "POST", <<"/orders">>, Body(<<Field(PlainName, TRUE, Missing)>>))>>,
     <<Endpoint("e1", "POST", <<"/orders">>,
                Body(<<Field(FkCustomer, TRUE, Missing), Field(FkPaid, TRUE, Missing)>>)),
       [Endpoint("e2", "GET", <<"/orders/new">>, NullBody) EXCEPT !.isPageRoute = TRUE]>>}

FkNames == {FkCustomer, FkPaid}

CsMessages ==
    {<<>>,
     <<MsgLine(FkNames, TRUE, TRUE, FALSE)>>,
     <<MsgLine(FkNames, TRUE, FALSE, TRUE)>>,
     <<MsgLine(FkNames, TRUE, TRUE, TRUE)>>,
     <<MsgLine(FkNames, FALSE, TRUE, FALSE)>>,
     <<MsgLine(FkNames, TRUE, FALSE, FALSE), MsgLine(FkNames, TRUE, TRUE, FALSE)>>,
     <<MsgLine({FkCustomer}, TRUE, FALSE, TRUE), MsgLine({FkPaid}, TRUE, TRUE, FALSE)>>}

CsPageLists ==
    {<<Page("p1", <<"/orders">>, 0)>>, <<Page("p1", <<"/orders">>, 2)>>,
     <<Page("p1", <<"/orders">>, 0), Page("p2", <<"/orders/new">>, 1)>>}

CsChunkCases ==
    {ChunkDoc(eps, <<>>, msg, TRUE) : eps \in CsEndpointLists, msg \in CsMessages}
    \cup {ChunkDoc(<<>>, pgs, <<>>, TRUE) : pgs \in CsPageLists}

\* the chunks that follow the first chunk of a run
CsFollowingCases ==
    {ChunkDoc(<<>>, <<>>, <<>>, TRUE),
     ChunkDoc(<<[Endpoint("e3", "GET", <<"/orders/new">>, NullBody) EXCEPT !.isPageRoute = TRUE]>>,
              <<>>, <<>>, TRUE),
     ChunkDoc(<<Endpoint("e3", "POST", <<"/orders">>, Body(<<Field(FkCustomer, TRUE, Missing)>>))>>,
              <<>>, <<MsgLine(FkNames, TRUE, TRUE, FALSE)>>, TRUE),
     ChunkDoc(<<Endpoint("e3", "POST", <<"/orders">>, Body(<<Field(FkCustomer, TRUE, Missing)>>))>>,
              <<>>, <<MsgLine(FkNames, TRUE, FALSE, TRUE)>>, TRUE),
     ChunkDoc(<<>>, <<Page("p3", <<"/orders">>, 0)>>, <<>>, TRUE),
     ChunkDoc(<<>>, <<Page("p3", <<"/orders">>, 1)>>, <<>>, TRUE)}

\* confidence_score.py started on a blueprint and its chunks
InitConfidence ==
    /\ script = "confidence_score"
    /\ pc = "chunks"
    /\ \E a \in {AuthNull, AuthFull, Auth(FALSE, "session_cookie", "/login", Missing, Missing)} :
          bp = [NoBlueprint EXCEPT !.auth = a]
    /\ \/ chunks = <<>>
       \/ \E first \in CsChunkCases : \E n \in 0..(MaxChunks - 1) :
             \E rest \in [1..n -> CsFollowingCases] : chunks = <<first>> \o rest
    /\ ci = 1 /\ cnt = ZeroCounters /\ risks = <<>> /\ score = 100
    /\ verdict = "" /\ dv = DvStart
    /\ BpIdle /\ CkIdle
    /\ page_locators = <<>> /\ pgi = 1 /\ PROBLEMS = <<>> /\ by_cat = <<>> /\ report = <<>>
    /\ strict_failures = <<>> /\ likely_failures = <<>> /\ harmless = <<>>

\* the scoring section of confidence_score.py started on counters of any size
InitConfidenceScoring ==
    /\ script = "confidence_score"
    /\ pc = "score"
    /\ \E a \in AuthCases : bp = [NoBlueprint EXCEPT !.auth = a]
    /\ chunks = <<>> /\ ci = 1
    /\ \E z \in 0..MaxZeroFk, c \in 0..MaxCrossFk, p \in 0..MaxPageRoutes,
          t \in 0..MaxScoredPages :
          \E l \in 0..t :
             /\ cnt = [ZeroCounters EXCEPT !.ep_with_zero_get_fk = z,
                                           !.ep_with_crosschunk_fk = c,
                                           !.ep_page_routes = p,
                                           !.total_ep = p,
                                           !.total_pages = t,
                                           !.locator_pages = l,
                                           !.total_locators = l]
             /\ risks = [k \in 1..z |-> FkRisk]
    /\ score = 100 /\ verdict = "" /\ dv = DvStart
    /\ BpIdle /\ CkIdle
    /\ page_locators = <<>> /\ pgi = 1 /\ PROBLEMS = <<>> /\ by_cat = <<>> /\ report = <<>>
    /\ strict_failures = <<>> /\ likely_failures = <<>> /\ harmless = <<>>

\* one iteration of `for cf in chunks`
CS_Chunk ==
    /\ script = "confidence_score" /\ pc = "chunks"
    /\ ci <= Len(chunks)
    /\ cnt' = CountChunk(cnt, chunks[ci])
    /\ risks' = risks \o SelectSeq(ChunkOutcomes(chunks[ci].endpoints, chunks[ci].msg),
                                   LAMBDA o : o = "zero")
    /\ ci' = ci + 1
    /\ UNCHANGED <<script, pc, bp, chunks, score, verdict, locVarsButVerdict, dv, bpVars, ckVars>>

\* the chunk loop ends
CS_ChunksDone ==
    /\ script = "confidence_score" /\ pc = "chunks"
    /\ ci > Len(chunks)
    /\ pc' = "score"
    /\ UNCHANGED <<script, bp, chunks, ci, cnt, risks, score, verdict, locVarsButVerdict, dv, bpVars, ckVars>>

\* the Scoring section and the Confidence map
CS_Score ==
    /\ script = "confidence_score" /\ pc = "score"
    /\ score' = ConfidenceScore(bp.auth, cnt)
    /\ verdict' = Band(score')
    /\ risks' = RisksAfterAuth(bp.auth, risks)
    /\ pc' = "done"
    /\ UNCHANGED <<script, bp, chunks, ci, cnt, locVarsButVerdict, dv, bpVars, ckVars>>

(***************************************************************************)
(* deep_validate.py -- analyse_repo                                        *)
(***************************************************************************)
\* str.upper() of a method name
Upper(m) ==
    CASE m = "get" -> "GET" [] m = "post" -> "POST" [] m = "put" -> "PUT"
      [] m = "patch" -> "PATCH" [] m = "delete" -> "DELETE" [] OTHER -> m

\* the path tokens that are named parameters, ":name" and "{name}"
ColonTokens == {":id", ":orderId"}
BraceTokens == {"{id}"}

\* re.findall(r":(\w+)|\{(\w+)\}", path)
dynamic_segs(path) == SelectSeq(path, LAMBDA t : t \in ColonTokens \cup BraceTokens)

Issue(kind, ref) == [kind |-> kind, ref |-> ref]

\* the issues one endpoint appends to issues_ep
EndpointIssues(ep) ==
    LET method == Upper(ep.method)
        body_fields == IF ep.requestBody.isNull THEN <<>> ELSE ep.requestBody.fields
        ref == <<method, ep.path>>
    IN  (IF method \in {"POST", "PUT", "PATCH"} /\ body_fields = <<>>
         THEN <<Issue("no requestBody.fields defined", ref)>> ELSE <<>>)
        \o (IF dynamic_segs(ep.path) # <<>> /\ ep.pathParams = <<>>
            THEN <<Issue("dynamic path but pathParams=[]", ref)>> ELSE <<>>)
        \o (IF ep.authRequired \in {Missing, Absent}
            THEN <<Issue("authRequired not set (null)", ref)>> ELSE <<>>)

\* the issues one page appends to issues_pages
PageIssues(pg) ==
    (IF pg.nLocators = 0 THEN <<Issue("0 locators", pg.route)>> ELSE <<>>)
    \o (IF pg.authRequired \in {Missing, Absent}
        THEN <<Issue("authRequired not set", pg.route)>> ELSE <<>>)
    \o (IF pg.isDynamic /\ pg.routeParams = <<>>
        THEN <<Issue("isDynamic=true but routeParams=[]", pg.route)>> ELSE <<>>)

RECURSIVE FlatMap(_, _)
FlatMap(Op(_), seq) == IF seq = <<>> THEN <<>> ELSE Op(Head(seq)) \o FlatMap(Op, Tail(seq))

\* the ids of a list of endpoints or pages: x.get("id", "")
IdsOf(seq) == {IF seq[k].id = Missing THEN "" ELSE seq[k].id : k \in 1..Len(seq)}

\* the issues the chunk loop appends: a message of less than 100 characters
ChunkIssues(n, ch) ==
    IF ~ch.longMsg THEN <<Issue("llmUserMessage very short", n)>> ELSE <<>>

RECURSIVE AllChunkIssues(_, _)
AllChunkIssues(chs, n) ==
    IF n > Len(chs) THEN <<>> ELSE ChunkIssues(n, chs[n]) \o AllChunkIssues(chs, n + 1)

\* the seeds of Python's string hash (PYTHONHASHSEED) that the model tells apart; the
\* interpreter draws one when the process starts
HashSeeds == {0, 1}

\* the ids of the model in the order of their text
IdRank == <<"", "e1", "e2", "e3", "e4", "e9", "p1", "p2", "p3", "p9">>

RankOf(id) == CHOOSE k \in 1..Len(IdRank) : IdRank[k] = id

\* the order in which print() shows a set of strings: the order of the hash table,
\* which the seed of the string hash decides.  Of the orders the build can produce the
\* model keeps two, the ids ascending (seed 0) and descending (seed 1).
RECURSIVE SetOrder(_, _)
SetOrder(ids, seed) ==
    IF ids = {} THEN <<>>
    ELSE LET x == CHOOSE x \in ids :
                     \A y \in ids : IF seed = 0 THEN RankOf(x) <= RankOf(y)
                                               ELSE RankOf(y) <= RankOf(x)
         IN  <<x>> \o SetOrder(ids \ {x}, seed)

\* missing_ep with the operands of the set difference exchanged
MissingSwapped(in_bp, in_chunks) == in_chunks \ in_bp

\* missing_ep = ep_ids_in_bp - ep_ids_in_chunks (and the same for pages)
MissingIds(in_bp, in_chunks) == in_bp \ in_chunks

\* Quality as the distance of the penalty from 100
QualityAbs(total_issues) ==
    IF 100 - total_issues * 5 < 0 THEN total_issues * 5 - 100 ELSE 100 - total_issues * 5

\* confidence = max(0, 100 - (total_issues * 5))
Quality(total_issues) == Max(0, 100 - total_issues * 5)

\* the endpoint and page shapes the blueprints of the model are made of
IdSeq == <<"e1", "e2", "e3", "e4">>
PageIdSeq == <<"p1", "p2", "p3">>

DvEndpointShapes ==
    {Endpoint("", "GET", <<"/orders">>, NullBody),
     Endpoint("", "POST", <<"/orders">>, NullBody),
     Endpoint("", "POST", <<"/orders">>, Body(<<Field(PlainName, TRUE, "x")>>)),
     Endpoint("", "post", <<"/orders">>, Body(<<>>)),
     Endpoint("", "GET", <<"/orders/", ":id">>, NullBody),
     [Endpoint("", "GET", <<"/orders/", ":id">>, NullBody)
         EXCEPT !.pathParams = <<[name |-> "id", example |-> "1"]>>],
     Endpoint("", "GET", <<"/orders/", "{id}">>, NullBody),
     [Endpoint("", "GET", <<"/orders">>, NullBody)
         EXCEPT !.pathParams = <<[name |-> "id", example |-> "1"]>>],
     [Endpoint("", "GET", <<"/orders">>, NullBody) EXCEPT !.authRequired = Missing],
     [Endpoint("", "GET", <<"/orders">>, NullBody) EXCEPT !.authRequired = "false"],
     [Endpoint("", "PATCH", <<"/orders/", ":id">>, NullBody) EXCEPT !.authRequired = Missing]}

DvPageShapes ==
    {Page("", <<"/orders">>, 2),
     Page("", <<"/orders">>, 0),
     [Page("", <<"/orders">>, 2) EXCEPT !.authRequired = Missing],
     [Page("", <<"/orders/", ":id">>, 2) EXCEPT !.isDynamic = TRUE],
     [Page("", <<"/orders/", ":id">>, 2)
         EXCEPT !.isDynamic = TRUE, !.routeParams = <<[name |-> "id"]>>],
     [Page("", <<"/orders/", ":id">>, 0) EXCEPT !.isDynamic = TRUE, !.authRequired = Missing]}

WithIds(shapes, ids) == [k \in 1..Len(shapes) |-> [shapes[k] EXCEPT !.id = ids[k]]]

\* plain endpoints and pages with the given ids, for chunks and for the blueprints
\* whose ids are what matters
RECURSIVE PlainEndpoints(_)
PlainEndpoints(ids) ==
    IF ids = {} THEN <<>>
    ELSE LET i == CHOOSE x \in ids : \A y \in ids : <<x, y>> \in IdOrder
         IN  <<Endpoint(i, "GET", <<"/orders">>, NullBody)>> \o PlainEndpoints(ids \ {i})

RECURSIVE PlainPages(_)
PlainPages(ids) ==
    IF ids = {} THEN <<>>
    ELSE LET i == CHOOSE x \in ids : \A y \in ids : <<x, y>> \in IdOrder
         IN  <<Page(i, <<"/orders">>, 2)>> \o PlainPages(ids \ {i})

\* the chunks of the blueprints whose ids are what matters: endpoint id e9 and page id
\* p9 are in no blueprint
DvChunkCases ==
    {ChunkDoc(PlainEndpoints(e), <<>>, <<>>, TRUE) : e \in SUBSET {"e1", "e2", "e9"}}
    \cup {ChunkDoc(<<>>, PlainPages(g), <<>>, TRUE) : g \in SUBSET {"p1", "p9"}}
    \cup {ChunkDoc(PlainEndpoints({"e1"}), PlainPages({"p1"}), <<>>, FALSE)}

DvIdle ==
    /\ ci = 1 /\ cnt = ZeroCounters /\ risks = <<>> /\ score = 100 /\ verdict = ""
    /\ page_locators = <<>> /\ pgi = 1 /\ PROBLEMS = <<>> /\ by_cat = <<>> /\ report = <<>>
    /\ strict_failures = <<>> /\ likely_failures = <<>> /\ harmless = <<>>

\* deep_validate.py started on a blueprint and its chunks: blueprints that vary the
\* endpoints, blueprints that vary the pages, and blueprints and chunks that vary the ids
InitDeepValidate ==
    /\ script = "deep_validate"
    /\ pc = "endpoints"
    /\ \E h \in HashSeeds : dv = [DvStart EXCEPT !.hashseed = h]
    /\ DvIdle
    /\ BpIdle /\ CkIdle
    /\ \/ \E n \in 0..MaxEndpoints : \E shapes \in [1..n -> DvEndpointShapes] :
             \E inChunk \in BOOLEAN :
                /\ bp = [NoBlueprint EXCEPT !.endpoints = WithIds(shapes, IdSeq)]
                /\ chunks = IF inChunk THEN <<ChunkDoc(bp.endpoints, <<>>, <<>>, TRUE)>> ELSE <<>>
       \/ \E n \in 0..MaxPages : \E shapes \in [1..n -> DvPageShapes] :
             \E inChunk \in BOOLEAN :
                /\ bp = [NoBlueprint EXCEPT !.pages = WithIds(shapes, PageIdSeq)]
                /\ chunks = IF inChunk THEN <<ChunkDoc(<<>>, bp.pages, <<>>, TRUE)>> ELSE <<>>
       \/ \E e \in SUBSET {"e1", "e2"}, g \in SUBSET {"p1"} :
             /\ bp = [NoBlueprint EXCEPT !.endpoints = PlainEndpoints(e), !.pages = PlainPages(g)]
             /\ \E n \in 0..MaxChunks : chunks \in [1..n -> DvChunkCases]

\* the overall-score section of analyse_repo started on issue lists of any length
InitDeepScoring ==
    /\ script = "deep_validate"
    /\ pc = "overall"
    /\ DvIdle
    /\ BpIdle /\ CkIdle
    /\ bp = NoBlueprint /\ chunks = <<>>
    /\ \E n \in 0..MaxIssues, m \in 0..2, k \in 0..1, e \in SUBSET {"e1", "e2"},
          g \in SUBSET {"p1"} :
          dv = [DvStart EXCEPT
                  !.issues_ep = [j \in 1..n |-> Issue("authRequired not set (null)", <<"GET", <<"/orders">>>>)],
                  !.issues_pages = [j \in 1..m |-> Issue("0 locators", <<"/orders">>)],
                  !.issues_chunks = [j \in 1..k |-> Issue("llmUserMessage very short", j)],
                  !.ep_ids_in_bp = {"e1", "e2"}, !.page_ids_in_bp = {"p1"},
                  !.ep_ids_in_chunks = {"e1", "e2"} \ e, !.page_ids_in_chunks = {"p1"} \ g,
                  !.missing_ep = e, !.missing_pg = g]

DvUnchanged == UNCHANGED <<script, bp, chunks, locVars, csVars, bpVars, ckVars>>

\* `for ep in endpoints`
DV_Endpoints ==
    /\ script = "deep_validate" /\ pc = "endpoints"
    /\ dv' = [dv EXCEPT !.ep_ids_in_bp = IdsOf(bp.endpoints),
                        !.issues_ep = FlatMap(EndpointIssues, bp.endpoints)]
    /\ pc' = "pages"
    /\ DvUnchanged

\* `for pg in pages`
DV_Pages ==
    /\ script = "deep_validate" /\ pc = "pages"
    /\ dv' = [dv EXCEPT !.page_ids_in_bp = IdsOf(bp.pages),
                        !.issues_pages = FlatMap(PageIssues, bp.pages)]
    /\ pc' = "chunks"
    /\ DvUnchanged

\* `for fname, chunk in chunks`
DV_Chunks ==
    /\ script = "deep_validate" /\ pc = "chunks"
    /\ dv' = [dv EXCEPT
                !.ep_ids_in_chunks = UNION {IdsOf(chunks[k].endpoints) : k \in 1..Len(chunks)},
                !.page_ids_in_chunks = UNION {IdsOf(chunks[k].pages) : k \in 1..Len(chunks)},
                !.issues_chunks = AllChunkIssues(chunks, 1)]
    /\ pc' = "crosscheck"
    /\ DvUnchanged

\* the cross-check of the blueprint ids against the chunk ids
DV_CrossCheck ==
    /\ script = "deep_validate" /\ pc = "crosscheck"
    /\ LET missing_ep == MissingIds(dv.ep_ids_in_bp, dv.ep_ids_in_chunks)
           missing_pg == MissingIds(dv.page_ids_in_bp, dv.page_ids_in_chunks)
       IN  dv' = [dv EXCEPT !.missing_ep = missing_ep,
                            !.missing_pg = missing_pg,
                            !.printed_ep = SetOrder(missing_ep, dv.hashseed),
                            !.printed_pg = SetOrder(missing_pg, dv.hashseed)]
    /\ pc' = "overall"
    /\ DvUnchanged

\* the overall score
DV_Overall ==
    /\ script = "deep_validate" /\ pc = "overall"
    /\ LET total == Len(dv.issues_ep) + Len(dv.issues_pages) + Len(dv.issues_chunks)
                    + Cardinality(dv.missing_ep) + Cardinality(dv.missing_pg)
       IN  dv' = [dv EXCEPT !.total_issues = total, !.confidence = Quality(total)]
    /\ pc' = "done"
    /\ DvUnchanged

(***************************************************************************)
(* The blueprints audit_blueprints.py and validate_blueprints.py are run   *)
(* on.                                                                     *)
(***************************************************************************)
PathParam(nm, ex) == [name |-> nm, example |-> ex]

OrdersPath == <<"/orders">>
OrderPath == <<"/orders/", ":id">>
LogoutPath == <<"/auth/logout">>

BpEndpointShapes ==
    {Endpoint("e", "GET", OrdersPath, NullBody),
     Endpoint("e", "GET", OrdersPath, Body(<<>>)),
     Endpoint("e", "GET", OrdersPath, Body(<<Field(PlainName, FALSE, "x")>>)),
     [Endpoint("e", "DELETE", OrderPath, Body(<<Field(PlainName, FALSE, "x")>>))
         EXCEPT !.pathParams = <<PathParam("id", "1")>>],
     [Endpoint("e", "DELETE", OrderPath, NullBody) EXCEPT !.pathParams = <<PathParam("id", "1")>>],
     Endpoint("e", "HEAD", OrdersPath, NullBody),
     Endpoint("e", "HEAD", OrdersPath, Body(<<>>)),
     Endpoint("e", "HEAD", OrdersPath, Body(<<Field(PlainName, FALSE, "x")>>)),
     Endpoint("e", "OPTIONS", OrdersPath, Body(<<>>)),
     Endpoint("e", "POST", OrdersPath, NullBody),
     Endpoint("e", "POST", LogoutPath, NullBody),
     Endpoint("e", "POST", OrdersPath, [Body(<<>>) EXCEPT !.inferred = JsonFalse]),
     Endpoint("e", "POST", OrdersPath, Body(<<Field(PlainName, TRUE, Missing)>>)),
     Endpoint("e", "POST", OrdersPath, Body(<<Field(PlainName, FALSE, JsonZero)>>)),
     Endpoint("e", "POST", OrdersPath, Body(<<Field(FkCustomer, TRUE, Missing)>>)),
     Endpoint("e", "POST", OrdersPath, Body(<<Field(FkCustomer, FALSE, "c1")>>)),
     Endpoint("e", "POST", OrdersPath, Body(<<Field(FkCustomer, FALSE, Missing)>>)),
     [Endpoint("e", "PUT", OrderPath, Body(<<Field(FkPaid, TRUE, Missing)>>))
         EXCEPT !.pathParams = <<PathParam("id", "1")>>],
     Endpoint("e", "GET", OrderPath, NullBody),
     [Endpoint("e", "GET", OrderPath, NullBody) EXCEPT !.pathParams = <<PathParam("id", Missing)>>],
     [Endpoint("e", "GET", OrdersPath, NullBody) EXCEPT !.pathParams = <<PathParam("id", "1")>>],
     [Endpoint("e", "GET", OrderPath, NullBody)
         EXCEPT !.pathParams = <<PathParam("id", "1")>>, !.authRequired = "false"]}

\* GET endpoints with query parameters: the names of ep["queryParams"], where the
\* source reads "limit" and "page"
QpEndpointShapes ==
    {[Endpoint("e", "GET", OrdersPath, NullBody) EXCEPT !.queryParams = qs] :
        qs \in {<<"limit", "page">>, <<"page", "limit", "page">>, <<"page">>,
                <<"limit", "page", "sort">>, <<"sort">>}}
    \cup {[Endpoint("e", "POST", OrdersPath, Body(<<Field(PlainName, TRUE, "x")>>))
              EXCEPT !.queryParams = <<"sort">>]}

\* endpoints whose field or path parameter has an example that is there and is falsy
FalsyExampleShapes ==
    {Endpoint("e", "POST", OrdersPath, Body(<<Field(PlainName, r, ex)>>)) :
        r \in BOOLEAN, ex \in {JsonZero, JsonFalse, ""}}
    \cup {[Endpoint("e", "GET", OrderPath, NullBody) EXCEPT !.pathParams = <<PathParam("id", ex)>>] :
            ex \in {JsonZero, JsonFalse, ""}}

\* endpoints none of the audits has a finding for
CleanEndpoints ==
    {<<>>,
     <<Endpoint("e", "GET", OrdersPath, NullBody)>>,
     <<Endpoint("e", "POST", OrdersPath, Body(<<Field(PlainName, TRUE, "x")>>))>>}

BpPageShapes ==
    {Page("p", OrdersPath, 2),
     Page("p", OrdersPath, 0),
     Page("p", <<"orders">>, 2),
     Page("p", <<"app/routes/", "orders.tsx">>, 2),
     Page("p", <<"app/routes/", "orders.tsx">>, 0),
     [Page("p", OrdersPath, 2) EXCEPT !.title = Missing],
     [Page("p", OrdersPath, 2) EXCEPT !.title = ""],
     [Page("p", OrdersPath, 2) EXCEPT !.title = "Index"],
     [Page("p", OrderPath, 2) EXCEPT !.title = "[id]"]}

\* the blueprints of the model: some vary the endpoints, some the auth object, some the
\* pages
BlueprintCases ==
    {[auth |-> AuthSeeded, endpoints |-> eps, pages |-> <<>>] :
        eps \in UNION {[1..n -> BpEndpointShapes] : n \in 0..MaxEndpoints}}
    \cup {[auth |-> a, endpoints |-> eps, pages |-> <<>>] :
            a \in AuthCases \cup {AuthTyped, AuthSeeded, AuthNoPassword, AuthNullPassword},
            eps \in CleanEndpoints}
    \cup {[auth |-> AuthSeeded, endpoints |-> <<>>, pages |-> pgs] :
            pgs \in UNION {[1..n -> BpPageShapes] : n \in 0..MaxPages}}
    \cup {[auth |-> AuthSeeded, endpoints |-> <<ep>>, pages |-> <<>>] :
            ep \in QpEndpointShapes \cup FalsyExampleShapes}

(***************************************************************************)
(* audit_blueprints.py                                                     *)
(***************************************************************************)
WRITE_METHODS == {"POST", "PUT", "PATCH"}
READ_METHODS == {"GET", "DELETE", "HEAD"}

\* a line of the errors or warnings list: its code, the endpoint or page it is about,
\* and the names it prints
Finding(code, method, path, detail) ==
    [code |-> code, method |-> method, path |-> path, detail |-> detail]

\* fname.endswith("Id") or fname.endswith("ID")
EndsWithId(name) == name # <<>> /\ name[Len(name)] \in {"Id", "ID"}

\* body = ep.get("requestBody") or {};  fields = body.get("fields", [])
AbFields(ep) == IF ep.requestBody.isNull THEN <<>> ELSE ep.requestBody.fields

\* body.get("inferred") is False
AbInferredFalse(ep) == ~ep.requestBody.isNull /\ ep.requestBody.inferred = JsonFalse

\* rule 4: `if method in READ_METHODS and fields`
BodyBleed(ep) == ep.method \in READ_METHODS /\ AbFields(ep) # <<>>

\* rule 5 for required fields only
FkNoExampleRequired(f) == EndsWithId(f.name) /\ ~Truthy(f.example) /\ f.required

\* rule 5: (fname.endswith("Id") or fname.endswith("ID")) and not f.get("example")
FkNoExample(f) == EndsWithId(f.name) /\ ~Truthy(f.example)

\* the errors one iteration of `for ep in eps` appends
AbEndpointErrors(ep) ==
    LET fields == AbFields(ep)
        E(code, detail) == <<Finding(code, ep.method, ep.path, detail)>>
    IN  FlatMap(LAMBDA p : IF ~Truthy(p.example) THEN E("NO_PP_EXAMPLE", <<p.name>>) ELSE <<>>,
                ep.pathParams)
        \o FlatMap(LAMBDA f : IF ~Truthy(f.example) /\ f.required
                              THEN E("NO_FIELD_EXAMPLE", f.name) ELSE <<>>,
                   fields)
        \o (IF BodyBleed(ep) THEN E("BODY_BLEED", <<>>) ELSE <<>>)
        \o FlatMap(LAMBDA f : IF FkNoExample(f)
                              THEN E("FK_NO_EXAMPLE", f.name) ELSE <<>>,
                   fields)

\* the warnings one iteration of `for ep in eps` appends
AbEndpointWarnings(ep) ==
    LET fields == AbFields(ep)
        W(code, detail) == <<Finding(code, ep.method, ep.path, detail)>>
    IN  FlatMap(LAMBDA f : IF ~Truthy(f.example) /\ ~f.required
                           THEN W("WARN_NO_EXAMPLE", f.name) ELSE <<>>,
                fields)
        \o (IF ep.method \in WRITE_METHODS /\ AbInferredFalse(ep) /\ fields = <<>>
            THEN W("WARN_EMPTY_BODY", <<>>) ELSE <<>>)

\* x or "MISSING"
OrMissing(v) == IF Truthy(v) THEN v ELSE "MISSING"

\* auth.get("tokenType") or auth.get("type") or "MISSING"; `auth = b.get("auth") or {}`
\* makes every key of a null auth absent
token_type(auth) ==
    IF auth.isNull THEN "MISSING"
    ELSE IF Truthy(auth.tokenType) THEN auth.tokenType ELSE OrMissing(auth.type)

login_ep(auth) == IF auth.isNull THEN "MISSING" ELSE OrMissing(auth.loginEndpoint)

seed_email(auth) == IF auth.isNull THEN "MISSING" ELSE OrMissing(auth.credentials.email)

seed_pass(auth) == IF auth.isNull THEN "MISSING" ELSE OrMissing(auth.credentials.password)

\* rule 6, errors
AbAuthErrors(auth) ==
    IF "MISSING" \in {token_type(auth), login_ep(auth)}
    THEN <<Finding("AUTH_INCOMPLETE", "", <<>>, <<token_type(auth), login_ep(auth)>>)>>
    ELSE <<>>

\* rule 6, warnings
AbAuthWarnings(auth) ==
    IF "MISSING" \in {seed_email(auth), seed_pass(auth)}
    THEN <<Finding("WARN_AUTH_CREDS", "", <<>>, <<seed_email(auth), seed_pass(auth)>>)>>
    ELSE <<>>

\* str.lower() of a page title
Lower(t) == CASE t = "Index" -> "index" [] t = "Orders" -> "orders" [] OTHER -> t

\* rule 7: t = pg.get("title", "")
AbPageErrors(pg) ==
    LET t == IF pg.title = Missing THEN "" ELSE pg.title
    IN  IF t = "" \/ Lower(t) \in {"[id]", "index", "page", "unknown"}
        THEN <<Finding("BAD_TITLE", "", pg.route, <<t>>)>> ELSE <<>>

\* audit_blueprints.py started on one blueprint
InitAuditBlueprints ==
    /\ script = "audit_blueprints"
    /\ pc = "endpoints"
    /\ bp \in BlueprintCases
    /\ chunks = <<>>
    /\ ab = AbStart /\ vb = VbStart /\ exit_status = Missing /\ CkIdle
    /\ dv = DvStart
    /\ DvIdle

AbUnchanged == UNCHANGED <<script, docVars, locVars, csVars, dv, vb, ckVars>>

\* `for ep in eps`
AB_Endpoints ==
    /\ script = "audit_blueprints" /\ pc = "endpoints"
    /\ ab' = [ab EXCEPT !.errors = FlatMap(AbEndpointErrors, bp.endpoints),
                        !.warnings = FlatMap(AbEndpointWarnings, bp.endpoints)]
    /\ pc' = "auth"
    /\ UNCHANGED exit_status
    /\ AbUnchanged

\* 6. Auth config completeness
AB_Auth ==
    /\ script = "audit_blueprints" /\ pc = "auth"
    /\ ab' = [ab EXCEPT !.errors = @ \o AbAuthErrors(bp.auth),
                        !.warnings = @ \o AbAuthWarnings(bp.auth)]
    /\ pc' = "pages"
    /\ UNCHANGED exit_status
    /\ AbUnchanged

\* 7. Pages, and the totals of the blueprint
AB_Pages ==
    /\ script = "audit_blueprints" /\ pc = "pages"
    /\ LET errors == ab.errors \o FlatMap(AbPageErrors, bp.pages)
       IN  ab' = [ab EXCEPT !.errors = errors,
                            !.total_errors = @ + Len(errors),
                            !.total_warnings = @ + Len(ab.warnings)]
    /\ pc' = "exit"
    /\ UNCHANGED exit_status
    /\ AbUnchanged

\* sys.exit(1 if total_errors > 0 else 0)
AB_Exit ==
    /\ script = "audit_blueprints" /\ pc = "exit"
    /\ exit_status' = IF ab.total_errors > 0 THEN "1" ELSE "0"
    /\ pc' = "done"
    /\ UNCHANGED ab
    /\ AbUnchanged

(***************************************************************************)
(* validate_blueprints.py -- validate_nextjs, validate_express and         *)
(* validate_remix run one after the other, each on a blueprint of its own. *)
(* The source trees of the runs export no query parameter and no body      *)
(* field, and the chunk directories are empty.                             *)
(***************************************************************************)
\* the paths and routes of the model in the order of Python's string comparison
PathOrder ==
    <<<<"/api/extra">>, LogoutPath, OrdersPath, OrderPath, <<"app/routes/", "orders.tsx">>, <<"orders">>>>

PathRank(p) == CHOOSE k \in 1..Len(PathOrder) : PathOrder[k] = p

\* the method names in the order of Python's string comparison
MethodOrder == <<"DELETE", "GET", "HEAD", "OPTIONS", "PATCH", "POST", "PUT">>

MethodRank(m) == CHOOSE k \in 1..Len(MethodOrder) : MethodOrder[k] = m

\* (method, path) < (method, path) as Python compares tuples
KeyLess(a, b) ==
    \/ MethodRank(a.method) < MethodRank(b.method)
    \/ a.method = b.method /\ PathRank(a.path) < PathRank(b.path)

RouteLess(a, b) == PathRank(a.route) < PathRank(b.route)

\* sorted(): a stable sort
RECURSIVE InsertSorted(_, _, _)
InsertSorted(Less(_, _), x, s) ==
    IF s = <<>> THEN <<x>>
    ELSE IF Less(x, Head(s)) THEN <<x>> \o s
    ELSE <<Head(s)>> \o InsertSorted(Less, x, Tail(s))

RECURSIVE Sorted(_, _)
Sorted(Less(_, _), s) ==
    IF s = <<>> THEN <<>>
    ELSE InsertSorted(Less, s[Len(s)], Sorted(Less, SubSeq(s, 1, Len(s) - 1)))

SameKey(a, b) == a.method = b.method /\ a.path = b.path

\* the values of {(ep["method"], ep["path"]): ep for ep in bp["endpoints"]} in the order
\* of the dict: a key keeps the place of its first endpoint and the value of its last
RECURSIVE bp_eps(_, _)
bp_eps(eps, k) ==
    IF k > Len(eps) THEN <<>>
    ELSE IF \E j \in 1..(k - 1) : SameKey(eps[j], eps[k]) THEN bp_eps(eps, k + 1)
    ELSE LET last == CHOOSE j \in k..Len(eps) :
                        /\ SameKey(eps[j], eps[k])
                        /\ \A i \in (j + 1)..Len(eps) : ~SameKey(eps[i], eps[k])
         IN  <<eps[last]>> \o bp_eps(eps, k + 1)

\* sorted(bp_eps.items())
SortedItems(b) == Sorted(KeyLess, bp_eps(b.endpoints, 1))

\* a line printed by issue() or warn()
Line(level, label, method, path) ==
    [level |-> level, label |-> label, method |-> method, path |-> path]

IssueLine(label, ep) == <<Line("issue", label, ep.method, ep.path)>>
WarnLine(label, ep) == <<Line("warn", label, ep.method, ep.path)>>

\* source_routes of validate_nextjs: the route files in sorted order, each with the
\* methods it exports; the registrations that validate_express collects are held in
\* the same form
SourceModes == {"none", "same", "extra", "put", "qp"}

SourceOf(mode, b) ==
    LET items == bp_eps(b.endpoints, 1)
        paths == SelectSeq(PathOrder, LAMBDA p : \E k \in 1..Len(items) : items[k].path = p)
        same == [k \in 1..Len(paths) |->
                   [path |-> paths[k],
                    methods |-> LET its == SelectSeq(items, LAMBDA it : it.path = paths[k])
                                IN  [j \in 1..Len(its) |-> its[j].method],
                    qps |-> <<>>]]
    IN  CASE mode = "none" -> <<>>
          [] mode = "same" -> same
          [] mode = "extra" -> <<[path |-> <<"/api/extra">>, methods |-> <<"POST">>,
                                  qps |-> <<>>]>> \o same
          [] mode = "put" -> [k \in 1..Len(paths) |->
                                [path |-> paths[k], methods |-> <<"PUT">>, qps |-> <<>>]]
          [] mode = "qp" -> [k \in 1..Len(same) |-> [same[k] EXCEPT !.qps = <<"limit", "page">>]]

\* InKeys by the path alone
InKeysByPath(items, method, path) ==
    \E k \in 1..Len(items) : items[k].path = path

InKeys(items, method, path) ==
    \E k \in 1..Len(items) : items[k].method = method /\ items[k].path = path

\* section 1 of validate_nextjs: routes and methods
RoutesLines(b, source_routes) ==
    LET items == bp_eps(b.endpoints, 1)
        OfRoute(src) ==
            FlatMap(LAMBDA m : IF InKeys(items, m, src.path) THEN <<>>
                               ELSE <<Line("issue", "MISSING_ENDPOINT", m, src.path)>>,
                    src.methods)
        OfEndpoint(ep) ==
            LET srcs == SelectSeq(source_routes, LAMBDA src : src.path = ep.path)
            IN  IF srcs = <<>> THEN IssueLine("PHANTOM_ENDPOINT", ep)
                ELSE IF ep.method \notin Range(srcs[1].methods) THEN IssueLine("WRONG_METHOD", ep)
                ELSE <<>>
    IN  FlatMap(OfRoute, source_routes) \o FlatMap(OfEndpoint, items)

\* section 2 of validate_nextjs: the query parameters of the read methods.  The source
\* names are sorted(set(qps)); the order of the blueprint names does not enter a test
QueryParamLines(b, source_routes) ==
    LET items == bp_eps(b.endpoints, 1)
        OfMethod(src, m) ==
            IF src.qps = <<>> \/ m \notin READ_METHODS \/ ~InKeys(items, m, src.path) THEN <<>>
            ELSE LET ep == items[CHOOSE k \in 1..Len(items) :
                                    items[k].method = m /\ items[k].path = src.path]
                     missing == SelectSeq(src.qps, LAMBDA q : q \notin Range(ep.queryParams))
                     extra == SelectSeq(ep.queryParams, LAMBDA q : q \notin Range(src.qps))
                 IN  IF missing # <<>> THEN IssueLine("MISSING_QP", ep)
                     ELSE IF extra # <<>> THEN WarnLine("EXTRA_QP", ep)
                     ELSE <<>>
    IN  FlatMap(LAMBDA src : FlatMap(LAMBDA m : OfMethod(src, m), src.methods), source_routes)

\* not ep.get("authRequired")
Unauthed(ep) == ep.authRequired # "true"

\* section 2 of validate_express: auth on endpoints
UnauthedLines(b) ==
    FlatMap(LAMBDA ep : WarnLine("UNAUTHED", ep),
            Sorted(KeyLess, SelectSeq(bp_eps(b.endpoints, 1), Unauthed)))

\* the write-method section
WriteBodyLines(fw, b) ==
    FlatMap(LAMBDA ep :
               IF ep.method \notin {"POST", "PUT", "PATCH"} THEN <<>>
               ELSE IF ep.requestBody.isNull THEN WarnLine("NO_BODY", ep)
               ELSE IF ep.requestBody.fields = <<>>
                    THEN WarnLine(IF fw = "nextjs" THEN "EMPTY_BODY_FIELDS" ELSE "EMPTY_FIELDS", ep)
               ELSE <<>>,
            SortedItems(b))

\* the methods whose requestBody the body-bleed section of a validate function looks at
BleedMethods(fw) ==
    IF fw = "nextjs" THEN {"GET", "DELETE", "HEAD", "OPTIONS"} ELSE {"GET", "DELETE"}

\* the body-bleed section: ep.get("requestBody") is not None
BodyBleedLines(fw, b) ==
    FlatMap(LAMBDA ep : IF ep.method \in BleedMethods(fw) /\ ~ep.requestBody.isNull
                        THEN IssueLine("BODY_BLEED", ep) ELSE <<>>,
            SortedItems(b))

\* re.findall(r':(\w+)', path)
ParamName(tok) == CASE tok = ":id" -> "id" [] tok = ":orderId" -> "orderId" [] OTHER -> tok

dynamic(path) ==
    LET toks == SelectSeq(path, LAMBDA t : t \in ColonTokens)
    IN  [k \in 1..Len(toks) |-> ParamName(toks[k])]

\* the path-parameter section
PathParamLines(b) ==
    FlatMap(LAMBDA ep :
               LET bp_pp == {ep.pathParams[k].name : k \in 1..Len(ep.pathParams)}
                   missing == SelectSeq(dynamic(ep.path), LAMBDA p : p \notin bp_pp)
               IN  IF missing # <<>> THEN IssueLine("MISSING_PP", ep) ELSE <<>>,
            SortedItems(b))

\* the auth section: `if auth:`
AuthLines(b) ==
    IF b.auth.isNull THEN <<Line("issue", "NO_AUTH", "", <<>>)>>
    ELSE IF Truthy(b.auth.defaultEmail) THEN <<>>
    ELSE <<Line("warn", "NO_SEED_CREDS", "", <<>>)>>

\* the tokens that hold a "/" and those that begin with one
SlashTokens == {"/orders", "/orders/", "app/routes/", "/api/extra"}
LeadingSlashTokens == {"/orders", "/orders/", "/api/extra"}

\* "/" not in pg["route"] in validate_nextjs, not pg["route"].startswith("/") in
\* validate_remix
is_fs_path(fw, route) ==
    IF fw = "nextjs" THEN \A k \in 1..Len(route) : route[k] \notin SlashTokens
    ELSE route = <<>> \/ route[1] \notin LeadingSlashTokens

\* the pages section
PageLines(fw, b) ==
    FlatMap(LAMBDA pg :
               IF is_fs_path(fw, pg.route) THEN <<Line("issue", "BAD_ROUTE", "", pg.route)>>
               ELSE IF pg.nLocators = 0 THEN <<Line("warn", "NO_LOCATORS", "", pg.route)>>
               ELSE <<>>,
            Sorted(RouteLess, b.pages))

\* the sections of each validate function, in program order
Sections(fw) ==
    CASE fw = "nextjs" -> <<"routes", "query_params", "write_bodies", "body_bleed", "path_params", "auth", "pages">>
      [] fw = "express" -> <<"unauthed", "write_bodies", "body_bleed", "auth", "path_params">>
      [] fw = "remix" -> <<"write_bodies", "body_bleed", "path_params", "auth", "pages">>

\* the validate functions in the order the script calls them
NextFramework(fw) ==
    CASE fw = "" -> "nextjs" [] fw = "nextjs" -> "express" [] fw = "express" -> "remix"

InitValidateBlueprints ==
    /\ script = "validate_blueprints"
    /\ pc = "load"
    /\ bp = NoBlueprint /\ chunks = <<>>
    /\ ab = AbStart /\ vb = VbStart /\ exit_status = Missing /\ CkIdle
    /\ dv = DvStart
    /\ DvIdle

VbUnchanged == UNCHANGED <<script, chunks, locVars, csVars, dv, ab, ckVars>>

\* a validate function starts: it reads its blueprint and scans its source tree
VB_Load ==
    /\ script = "validate_blueprints" /\ pc = "load"
    /\ \E b \in BlueprintCases, mode \in SourceModes :
          LET fw == NextFramework(vb.framework)
          IN  /\ fw = "remix" \/ Len(b.endpoints) > 1 => mode = "same"
              /\ fw = "express" => mode # "qp"
              /\ bp' = b
              /\ vb' = [vb EXCEPT !.framework = fw, !.sec = 1, !.out = <<>>,
                                  !.source_routes = IF fw # "remix" THEN SourceOf(mode, b)
                                                    ELSE <<>>]
    /\ pc' = "sections"
    /\ UNCHANGED exit_status
    /\ VbUnchanged

\* one section of the running validate function prints `found`
VbSection(name, found) ==
    /\ script = "validate_blueprints" /\ pc = "sections"
    /\ Sections(vb.framework)[vb.sec] = name
    /\ vb' = [vb EXCEPT !.out = @ \o found,
                        !.issues_total = @ + Len(SelectSeq(found, LAMBDA l : l.level = "issue")),
                        !.sec = @ + 1]
    /\ pc' = IF vb.sec < Len(Sections(vb.framework)) THEN "sections" ELSE "return"
    /\ UNCHANGED <<bp, exit_status>>
    /\ VbUnchanged

\* 1. Routes & Methods, of validate_nextjs
VB_Routes ==
    /\ vb.framework = "nextjs"
    /\ VbSection("routes", RoutesLines(bp, vb.source_routes))

\* 2. Query Params, of validate_nextjs
VB_QueryParams ==
    /\ vb.framework = "nextjs"
    /\ VbSection("query_params", QueryParamLines(bp, vb.source_routes))

\* 2. Auth on endpoints, of validate_express
VB_Unauthed ==
    /\ vb.framework = "express"
    /\ VbSection("unauthed", UnauthedLines(bp))

\* Write Method Bodies
VB_WriteBodies ==
    /\ vb.framework \in {"nextjs", "express", "remix"}
    /\ VbSection("write_bodies", WriteBodyLines(vb.framework, bp))

\* GET/DELETE Body Bleed
VB_BodyBleed ==
    /\ vb.framework \in {"nextjs", "express", "remix"}
    /\ VbSection("body_bleed", BodyBleedLines(vb.framework, bp))

\* Path Params
VB_PathParams ==
    /\ vb.framework \in {"nextjs", "express", "remix"}
    /\ VbSection("path_params", PathParamLines(bp))

\* the auth section raises KeyError: validate_nextjs and validate_remix print
\* auth['defaultPassword'] when auth.get("defaultEmail") is truthy
AuthRaises(fw, auth) ==
    /\ ~auth.isNull
    /\ fw \in {"nextjs", "remix"}
    /\ Truthy(auth.defaultEmail)
    /\ auth.defaultPassword = Absent

\* Auth Config; an exception no one catches ends the process with status 1
VB_Auth ==
    /\ vb.framework \in {"nextjs", "express", "remix"}
    /\ IF AuthRaises(vb.framework, bp.auth)
       THEN /\ script = "validate_blueprints" /\ pc = "sections"
            /\ Sections(vb.framework)[vb.sec] = "auth"
            /\ pc' = "crashed"
            /\ exit_status' = "1"
            /\ UNCHANGED <<bp, vb>>
            /\ VbUnchanged
       ELSE VbSection("auth", AuthLines(bp))

\* Pages & Locators, of validate_nextjs and validate_remix
VB_Pages ==
    /\ vb.framework \in {"nextjs", "remix"}
    /\ VbSection("pages", PageLines(vb.framework, bp))

\* the validate function returns: its blueprint and what it printed are behind it
VB_Return ==
    /\ script = "validate_blueprints" /\ pc = "return"
    /\ bp' = NoBlueprint
    /\ vb' = [vb EXCEPT !.sec = 1, !.out = <<>>, !.source_routes = <<>>]
    /\ pc' = IF vb.framework = "remix" THEN "exit" ELSE "load"
    /\ UNCHANGED exit_status
    /\ VbUnchanged

\* sys.exit(1 if issues_total > 0 else 0)
VB_Exit ==
    /\ script = "validate_blueprints" /\ pc = "exit"
    /\ exit_status' = IF vb.issues_total > 0 THEN "1" ELSE "0"
    /\ pc' = "done"
    /\ UNCHANGED <<bp, vb>>
    /\ VbUnchanged

(***************************************************************************)
(* validate_chunks.py                                                      *)
(***************************************************************************)
\* the 'METHOD path' keys of the endpoints that may have no request body
LEGITIMATELY_EMPTY_BODY ==
    {<<"POST", <<"/auth/logout">>>>,
     <<"POST", <<"/api/session/refresh">>>>,
     <<"POST", <<"/api/prescriptions/", ":prescriptionId", "/fill">>>>}

VALID_METHODS == {"GET", "POST", "PUT", "PATCH", "DELETE"}

\* an entry of row_issues, "CAT" or "CAT:detail"
VcIssue(cat, detail) == [cat |-> cat, detail |-> detail]

\* `for t in url_tokens`, with url_tokens = re.findall(r":(\w+)", path)
PathParamNotDeclared(ep) ==
    LET declared == {ep.pathParams[k].name : k \in 1..Len(ep.pathParams)}
    IN  FlatMap(LAMBDA t : IF t \notin declared
                           THEN <<VcIssue("PATH_PARAM_NOT_DECLARED", <<t>>)>> ELSE <<>>,
                dynamic(ep.path))

\* `for p in path_params`
OrphanPathParam(ep) ==
    FlatMap(LAMBDA p : IF p.name \notin Range(dynamic(ep.path))
                       THEN <<VcIssue("ORPHAN_PATH_PARAM", <<p.name>>)>> ELSE <<>>,
            ep.pathParams)

\* `ep_key not in LEGITIMATELY_EMPTY_BODY`
NotAllowListed(ep) == <<ep.method, ep.path>> \notin LEGITIMATELY_EMPTY_BODY

\* the request-body rule of a write method
ReqBodyIssues(ep) ==
    IF ep.method \in {"POST", "PUT", "PATCH"} /\ NotAllowListed(ep)
    THEN IF ep.requestBody.isNull THEN <<VcIssue("REQ_BODY_NULL", <<>>)>>
         ELSE IF ep.requestBody.fields = <<>> THEN <<VcIssue("REQ_BODY_FIELDS_EMPTY", <<>>)>>
         ELSE <<>>
    ELSE <<>>

\* `for bf in body["fields"]`
BodyFieldIssues(ep) ==
    IF ep.requestBody.isNull THEN <<>>
    ELSE FlatMap(LAMBDA bf :
                    (IF ~Truthy(bf.type) THEN <<VcIssue("BODY_FIELD_NO_TYPE", bf.name)>> ELSE <<>>)
                    \o (IF ~Truthy(bf.example)
                        THEN <<VcIssue("BODY_FIELD_NO_EXAMPLE", bf.name)>> ELSE <<>>),
                 ep.requestBody.fields)

\* row_issues of one endpoint of a chunk whose auth has this tokenType
VcEndpointIssues(tokenType, ep) ==
    LET auth_req == ep.authRequired = "true"
    IN  (IF ep.method \notin VALID_METHODS THEN <<VcIssue("BAD_METHOD", <<ep.method>>)>> ELSE <<>>)
        \o PathParamNotDeclared(ep)
        \o OrphanPathParam(ep)
        \o ReqBodyIssues(ep)
        \o BodyFieldIssues(ep)
        \o (IF ep.method # "DELETE" /\ ep.responseSchema = Missing
            THEN <<VcIssue("RESP_SCHEMA_NULL", <<>>)>> ELSE <<>>)
        \o (IF auth_req /\ ~Truthy(ep.authType)
            THEN <<VcIssue("AUTH_REQ_BUT_NO_AUTH_TYPE", <<>>)>> ELSE <<>>)
        \o (IF auth_req /\ ~Truthy(tokenType)
            THEN <<VcIssue("AUTH_REQ_BUT_CHUNK_AUTH_MISSING", <<>>)>> ELSE <<>>)
        \o (IF ep.confidence < 60
            THEN <<VcIssue("LOW_CONFIDENCE", <<ToString(ep.confidence)>>)>> ELSE <<>>)

\* the texts one of which a playwrightCode is expected to hold
PwKeywords ==
    {"getByRole", "getByLabel", "getByText", "getByTestId", "getByPlaceholder",
     "locator(", "page."}

\* the issues of one locator
LocatorIssues(loc) ==
    LET pw_code == Strip(loc.playwrightCode)
    IN  (IF pw_code = <<>> THEN <<VcIssue("LOCATOR_NO_PW_CODE", <<loc.name>>)>>
         ELSE IF \A k \in 1..Len(pw_code) : pw_code[k] \notin PwKeywords
              THEN <<VcIssue("LOCATOR_SUSPECT_PW_CODE", <<loc.name>>)>> ELSE <<>>)
        \o (IF loc.confidence < 50
            THEN <<VcIssue("LOCATOR_LOW_CONFIDENCE", <<loc.name>>)>> ELSE <<>>)

\* `is_dynamic and not route_params` without the test of route_params
DynamicNoParamsAny(page) == page.isDynamic

\* `is_dynamic and not route_params`
DynamicNoParams(page) == page.isDynamic /\ page.routeParams = <<>>

\* row_issues of one page of a chunk whose auth has this tokenType
VcPageIssues(tokenType, page) ==
    (IF page.locators = <<>> THEN <<VcIssue("NO_LOCATORS", <<>>)>> ELSE <<>>)
    \o FlatMap(LocatorIssues, page.locators)
    \o (IF DynamicNoParams(page) THEN <<VcIssue("DYNAMIC_ROUTE_NO_PARAMS", <<>>)>> ELSE <<>>)
    \o FlatMap(LAMBDA rp : IF rp.name \notin Range(dynamic(page.route))
                           THEN <<VcIssue("ORPHAN_ROUTE_PARAM", <<rp.name>>)>> ELSE <<>>,
               page.routeParams)
    \o (IF page.authRequired = "true" /\ ~Truthy(tokenType)
        THEN <<VcIssue("PAGE_AUTH_REQ_BUT_NO_CHUNK_AUTH", <<>>)>> ELSE <<>>)
    \o (IF page.confidence < 60
        THEN <<VcIssue("PAGE_LOW_CONFIDENCE", <<ToString(page.confidence)>>)>> ELSE <<>>)

\* a row of the report: the chunk file (by its number), the kind, the key and the issues
Row(file, kind, key, issues) == [file |-> file, kind |-> kind, key |-> key, issues |-> issues]

\* the rows of chunk number n: its endpoints, then its pages
ChunkRows(n, ch) ==
    [k \in 1..Len(ch.endpoints) |->
        Row(n, "endpoint", <<ch.endpoints[k].method, ch.endpoints[k].path>>,
            VcEndpointIssues(ch.tokenType, ch.endpoints[k]))]
    \o [k \in 1..Len(ch.pages) |->
        Row(n, "page", <<"PAGE", ch.pages[k].route>>, VcPageIssues(ch.tokenType, ch.pages[k]))]

\* `for iss in issues_all: for it in iss["issues"]: cats.setdefault(cat, []).append(...)`
RECURSIVE GroupIssues(_, _)
GroupIssues(cats, all) ==
    IF all = <<>> THEN cats
    ELSE GroupIssues(GroupProbs(cats, Head(all).issues, <<Head(all).file, Head(all).key>>),
                     Tail(all))

\* the endpoints of the chunks of validate_chunks.py, next to those of the blueprints
VcEndpointShapes ==
    BpEndpointShapes
    \cup {Endpoint("e", "POST", LogoutPath, Body(<<>>)),
          Endpoint("e", "PUT", LogoutPath, NullBody),
          Endpoint("e", "PATCH", OrdersPath, Body(<<>>)),
          [Endpoint("e", "GET", OrderPath, NullBody)
              EXCEPT !.pathParams = <<PathParam("orderId", "1")>>],
          [Endpoint("e", "GET", <<"/orders/", ":id", "/", ":orderId">>, NullBody)
              EXCEPT !.pathParams = <<PathParam("id", "1")>>],
          [Endpoint("e", "GET", <<"/orders/", ":id", "/", ":orderId">>, NullBody)
              EXCEPT !.pathParams = <<PathParam("orderId", "1"), PathParam("id", "1")>>],
          Endpoint("e", "POST", OrdersPath, Body(<<Field(PlainName, FALSE, Missing)>>)),
          Endpoint("e", "POST", OrdersPath, Body(<<Field(PlainName, TRUE, JsonFalse)>>)),
          Endpoint("e", "POST", OrdersPath,
                   Body(<<[Field(PlainName, TRUE, "x") EXCEPT !.type = Missing]>>)),
          [Endpoint("e", "GET", OrdersPath, NullBody) EXCEPT !.responseSchema = Missing],
          [Endpoint("e", "DELETE", OrdersPath, NullBody) EXCEPT !.responseSchema = Missing],
          [Endpoint("e", "GET", OrdersPath, NullBody) EXCEPT !.authType = ""],
          [Endpoint("e", "GET", OrdersPath, NullBody) EXCEPT !.confidence = 50]}

\* a page with these locators
PageWith(route, locs) ==
    [Page("p", route, Len(locs)) EXCEPT !.locators = locs]

VcPageShapes ==
    DvPageShapes
    \cup {[Page("p", OrdersPath, 1) EXCEPT !.isDynamic = TRUE],
          [Page("p", OrdersPath, 1) EXCEPT !.routeParams = <<[name |-> "id"]>>],
          [Page("p", OrderPath, 1) EXCEPT !.routeParams = <<[name |-> "id"]>>],
          [Page("p", OrderPath, 1)
              EXCEPT !.isDynamic = TRUE, !.routeParams = <<[name |-> "orderId"]>>],
          [Page("p", OrdersPath, 1) EXCEPT !.confidence = 50],
          PageWith(OrdersPath, <<ChunkLocator("Save", <<WS>>, 90)>>),
          PageWith(OrdersPath, <<ChunkLocator("Save", <<"cy.get">>, 90)>>),
          PageWith(OrdersPath, <<ChunkLocator("Save", <<WS, "locator(", WS>>, 40)>>)}

\* the chunk documents of validate_chunks.py: one chunk that varies the endpoints, one
\* that varies the pages and the chunk's auth, and chunks of one endpoint or page each
VcChunkSets ==
    {<<ChunkDoc(eps, <<>>, <<>>, TRUE)>> :
        eps \in UNION {[1..n -> VcEndpointShapes] : n \in 0..MaxEndpoints}}
    \cup {<<ChunkDoc(<<ep>>, <<>>, <<>>, TRUE)>> : ep \in FalsyExampleShapes}
    \cup {<<[ChunkDoc(<<>>, pgs, <<>>, TRUE) EXCEPT !.tokenType = t]>> :
            pgs \in UNION {[1..n -> VcPageShapes] : n \in 0..MaxPages},
            t \in {"session_cookie", Missing}}
    \cup UNION {[1..n -> {ChunkDoc(<<Endpoint("e", "POST", OrdersPath, NullBody)>>, <<>>, <<>>, TRUE),
                          ChunkDoc(<<Endpoint("e", "GET", OrderPath, NullBody)>>, <<>>, <<>>, TRUE),
                          [ChunkDoc(<<Endpoint("e", "GET", OrdersPath, NullBody)>>,
                                    <<Page("p", OrdersPath, 0)>>, <<>>, TRUE)
                              EXCEPT !.tokenType = Missing]}] : n \in 2..MaxChunks}

\* the variables of the other scripts in a run of a chunk script
ChunkScriptIdle ==
    /\ dv = DvStart /\ DvIdle
    /\ ab = AbStart /\ vb = VbStart /\ exit_status = Missing

InitValidateChunks ==
    /\ script = "validate_chunks"
    /\ pc = "chunks"
    /\ bp = NoBlueprint
    /\ chunks \in VcChunkSets
    /\ vc = VcStart /\ cov = CovStart /\ va = VaStart
    /\ ChunkScriptIdle

VcUnchanged == UNCHANGED <<script, docVars, locVars, csVars, dv, ab, vb, cov, va>>

\* one iteration of `for fname, raw in all_chunks`
VC_Chunk ==
    /\ script = "validate_chunks" /\ pc = "chunks"
    /\ vc.fi <= Len(chunks)
    /\ LET rows == ChunkRows(vc.fi, chunks[vc.fi])
       IN  vc' = [vc EXCEPT !.fi = @ + 1,
                            !.rows = @ \o rows,
                            !.issues_all = @ \o SelectSeq(rows, LAMBDA r : r.issues # <<>>)]
    /\ UNCHANGED <<pc, exit_status>>
    /\ VcUnchanged

\* the counts, the report and the ISSUES SUMMARY
VC_Summary ==
    /\ script = "validate_chunks" /\ pc = "chunks"
    /\ vc.fi > Len(chunks)
    /\ LET cats == GroupIssues(<<>>, vc.issues_all)
       IN  vc' = [vc EXCEPT !.ok_count = Len(SelectSeq(vc.rows, LAMBDA r : r.issues = <<>>)),
                            !.bad_count = Len(SelectSeq(vc.rows, LAMBDA r : r.issues # <<>>)),
                            !.cats = cats,
                            !.summary = SortByCount(<<>>, cats)]
    /\ pc' = "done"
    /\ exit_status' = "0"
    /\ UNCHANGED <<script, docVars, locVars, csVars, dv, ab, vb, cov, va>>

(***************************************************************************)
(* scripts/check_fk_coverage.py                                            *)
(***************************************************************************)
CustomersPath == <<"/customers">>

\* str.lower() of a token of a field name or of a path
LowerToken(t) ==
    CASE t = "Customer" -> "customer" [] t = "Order" -> "order"
      [] t = "/Customers" -> "/customers" [] OTHER -> t

\* fname.replace("Id", "").replace("ID", "").lower()
Resource(fname) ==
    LET kept == SelectSeq(fname, LAMBDA t : t \notin {"Id", "ID"})
    IN  [k \in 1..Len(kept) |-> LowerToken(kept[k])]

\* the name words a lower-case path token holds as substrings
WordsIn(tok) ==
    CASE tok = "/orders" -> {"order", "orders"}
      [] tok = "/orders/" -> {"order", "orders"}
      [] tok = "/customers" -> {"customer", "customers"}
      [] tok = "/entity" -> {"entity"}
      [] OTHER -> {}

\* `resource in p.lower()`: the empty string is in every path; no path of the model
\* holds two name words in a row
ResourceIn(resource, p) ==
    \/ resource = <<>>
    \/ Len(resource) = 1 /\ \E k \in 1..Len(p) : resource[1] \in WordsIn(LowerToken(p[k]))

\* ep_to_domain.get(id): the domain of the last chunk that holds the id, Missing (None)
\* when no chunk holds it
ep_to_domain(id) ==
    LET holders == {n \in 1..Len(chunks) :
                       \E k \in 1..Len(chunks[n].endpoints) : chunks[n].endpoints[k].id = id}
    IN  IF holders = {} THEN Missing
        ELSE chunks[CHOOSE n \in holders : \A m \in holders : m <= n].domain

\* get_paths when the domain of an endpoint that no chunk holds is None, not "?"
get_paths_none(b, ep) ==
    LET same_chunk_gets == SelectSeq(b.endpoints,
                              LAMBDA e : ep_to_domain(e.id) = ep_to_domain(ep.id)
                                         /\ e.method = "GET")
    IN  [k \in 1..Len(same_chunk_gets) |-> same_chunk_gets[k].path]

\* get_paths: the paths of the GET endpoints of the blueprint in the chunk of ep
get_paths(b, ep) ==
    LET domain == IF ep_to_domain(ep.id) = Missing THEN "?" ELSE ep_to_domain(ep.id)
        same_chunk_gets == SelectSeq(b.endpoints,
                              LAMBDA e : ep_to_domain(e.id) = domain /\ e.method = "GET")
    IN  [k \in 1..Len(same_chunk_gets) |-> same_chunk_gets[k].path]

\* can_resolve when every GET of the chunk counts, whatever its path
CanResolveByAnyGet(resource, paths) == paths # <<>>

\* can_resolve = any(resource in p.lower() for p in get_paths)
CanResolve(resource, paths) == \E k \in 1..Len(paths) : ResourceIn(resource, paths[k])

\* an entry of required_gaps or optional_gaps
Gap(ep, fname, paths) ==
    [method |-> ep.method, path |-> ep.path, fk |-> fname, get_paths |-> paths]

\* the gaps of one endpoint whose fields are required (req) or optional
GapsOf(b, ep, req) ==
    FlatMap(LAMBDA f :
               IF /\ EndsWithId(f.name)
                  /\ ~CanResolve(Resource(f.name), get_paths(b, ep))
                  /\ f.required = req
               THEN <<Gap(ep, f.name, get_paths(b, ep))>> ELSE <<>>,
            AbFields(ep))

FkOrder == <<"order", "Id">>
FkBare == <<"Id">>
\* "IdentityId": a name that holds "Id" before its suffix too
FkIdentity == <<"Id", "entity", "Id">>
EntityPath == <<"/entity">>

\* the endpoints of the blueprints of check_fk_coverage.py
CovEndpointShapes ==
    {Endpoint("", "GET", OrdersPath, NullBody),
     Endpoint("", "GET", CustomersPath, NullBody),
     Endpoint("", "get", CustomersPath, NullBody),
     Endpoint("", "GET", <<"/Customers">>, NullBody),
     Endpoint("", "POST", OrdersPath, NullBody),
     Endpoint("", "POST", OrdersPath, Body(<<Field(FkCustomer, TRUE, Missing)>>)),
     Endpoint("", "POST", OrdersPath, Body(<<Field(FkCustomer, TRUE, "c1")>>)),
     Endpoint("", "POST", OrdersPath, Body(<<Field(FkCustomer, FALSE, Missing)>>)),
     Endpoint("", "POST", OrdersPath, Body(<<Field(<<"Customer", "ID">>, TRUE, Missing)>>)),
     Endpoint("", "POST", OrdersPath, Body(<<Field(FkOrder, TRUE, Missing)>>)),
     Endpoint("", "POST", OrdersPath, Body(<<Field(FkBare, TRUE, Missing)>>)),
     Endpoint("", "GET", EntityPath, NullBody),
     Endpoint("", "POST", OrdersPath, Body(<<Field(FkIdentity, TRUE, Missing)>>)),
     Endpoint("", "POST", OrdersPath, Body(<<Field(FkPaid, TRUE, Missing)>>)),
     Endpoint("", "PUT", OrdersPath,
              Body(<<Field(PlainName, TRUE, Missing), Field(FkCustomer, TRUE, Missing)>>))}

\* the chunk of domain d that holds the endpoints of the blueprint b numbered in ks
DomainChunk(b, ks, d) ==
    [ChunkDoc(SelectSeq(b.endpoints, LAMBDA e : \E k \in ks : b.endpoints[k].id = e.id),
              <<>>, <<>>, TRUE) EXCEPT !.domain = d]

InitCheckFkCoverage ==
    /\ script = "check_fk_coverage"
    /\ pc = "gaps"
    /\ \E n \in 0..MaxEndpoints : \E shapes \in [1..n -> CovEndpointShapes] :
          \E place \in [1..n -> 0..MaxChunks], d \in {"customers", "?"} :
             /\ bp = [NoBlueprint EXCEPT !.endpoints = WithIds(shapes, IdSeq)]
             /\ \E m \in 0..MaxChunks :
                   /\ \A k \in 1..n : place[k] <= m
                   /\ m > 0 => \E k \in 1..n : place[k] = m
                   /\ m < 2 => d = "customers"
                   /\ chunks = [c \in 1..m |->
                                   DomainChunk(bp, {k \in 1..n : place[k] = c},
                                               IF c = 1 THEN "orders" ELSE d)]
    /\ vc = VcStart /\ cov = CovStart /\ va = VaStart
    /\ ChunkScriptIdle

CovUnchanged == UNCHANGED <<script, docVars, locVars, csVars, dv, ab, vb, vc, va>>

\* `for ep in eps`
CK_Gaps ==
    /\ script = "check_fk_coverage" /\ pc = "gaps"
    /\ cov' = [cov EXCEPT
                 !.required_gaps = FlatMap(LAMBDA ep : GapsOf(bp, ep, TRUE), bp.endpoints),
                 !.optional_gaps = FlatMap(LAMBDA ep : GapsOf(bp, ep, FALSE), bp.endpoints)]
    /\ pc' = "report"
    /\ UNCHANGED exit_status
    /\ CovUnchanged

\* the report of the repo; the script ends without an exit status of its own
CK_Report ==
    /\ script = "check_fk_coverage" /\ pc = "report"
    /\ pc' = "done"
    /\ exit_status' = "0"
    /\ UNCHANGED cov
    /\ CovUnchanged

(***************************************************************************)
(* verify_auth_fixes.py                                                    *)
(***************************************************************************)
RegisterPath == <<"/auth/register">>
LoginPath == <<"/auth/login">>

\* the endpoints of the blueprints of verify_auth_fixes.py; each holds method and path
VaEndpointShapes ==
    {Endpoint("e", "GET", OrdersPath, NullBody),
     [Endpoint("e", "GET", OrdersPath, NullBody) EXCEPT !.authRequired = "false"],
     [Endpoint("e", "GET", OrdersPath, NullBody) EXCEPT !.authRequired = Missing],
     [Endpoint("e", "GET", OrdersPath, NullBody) EXCEPT !.authRequired = Absent],
     [Endpoint("e", "GET", OrdersPath, NullBody) EXCEPT !.flags = {"AUTH_INHERITED_FROM_LAYOUT"}],
     [Endpoint("e", "POST", RegisterPath, NullBody) EXCEPT !.authRequired = "false"],
     Endpoint("e", "POST", RegisterPath, NullBody),
     [Endpoint("e", "POST", RegisterPath, NullBody) EXCEPT !.authRequired = Absent],
     [Endpoint("e", "GET", LoginPath, NullBody) EXCEPT !.authRequired = "false"],
     Endpoint("e", "GET", LoginPath, NullBody),
     Endpoint("e", "GET", RegisterPath, NullBody)}

InitVerifyAuthFixes ==
    /\ script = "verify_auth_fixes"
    /\ pc = "inherited"
    /\ \E n \in 0..MaxEndpoints : \E shapes \in [1..n -> VaEndpointShapes] :
          bp = [NoBlueprint EXCEPT !.endpoints = shapes]
    /\ chunks = <<>>
    /\ vc = VcStart /\ cov = CovStart /\ va = VaStart
    /\ ChunkScriptIdle

VaUnchanged == UNCHANGED <<script, docVars, locVars, csVars, dv, ab, vb, vc, cov>>

\* 1. AUTH_INHERITED_FROM_LAYOUT
VA_Inherited ==
    /\ script = "verify_auth_fixes" /\ pc = "inherited"
    /\ va' = [va EXCEPT !.inherited =
                 SelectSeq(bp.endpoints, LAMBDA e : "AUTH_INHERITED_FROM_LAYOUT" \in e.flags)]
    /\ pc' = "public"
    /\ UNCHANGED exit_status
    /\ VaUnchanged

\* e['authRequired'] raises KeyError for an endpoint without the key
AuthRequiredRaises(eps) == \E k \in 1..Len(eps) : eps[k].authRequired = Absent

\* 2. public_eps = [e for e in eps if not e['authRequired']], and the totals; an
\* exception no one catches ends the process with status 1
VA_Public ==
    /\ script = "verify_auth_fixes" /\ pc = "public"
    /\ IF AuthRequiredRaises(bp.endpoints)
       THEN /\ pc' = "crashed"
            /\ exit_status' = "1"
            /\ UNCHANGED va
       ELSE /\ va' = [va EXCEPT !.public_eps =
                         SelectSeq(bp.endpoints, LAMBDA e : ~Truthy(e.authRequired))]
            /\ pc' = "regression"
            /\ UNCHANGED exit_status
    /\ VaUnchanged

\* next((e for e in eps if e['path'] == path and e['method'] == method), None), as the
\* list of the first such endpoint
FirstWith(eps, method, path) ==
    LET found == SelectSeq(eps, LAMBDA e : e.path = path /\ e.method = method)
    IN  IF found = <<>> THEN <<>> ELSE <<Head(found)>>

\* the line of a regression check: CORRECT (public) or WRONG (should be public)
RegressionLine(found) ==
    [k \in 1..Len(found) |->
        [method |-> found[k].method, path |-> found[k].path,
         flag |-> IF ~Truthy(found[k].authRequired) THEN "CORRECT" ELSE "WRONG"]]

\* 3. and 4.: POST /auth/register and GET /auth/login are still public
VA_Regression ==
    /\ script = "verify_auth_fixes" /\ pc = "regression"
    /\ va' = [va EXCEPT !.checks =
                 RegressionLine(FirstWith(bp.endpoints, "POST", RegisterPath))
                 \o RegressionLine(FirstWith(bp.endpoints, "GET", LoginPath))]
    /\ pc' = "done"
    /\ exit_status' = "0"
    /\ VaUnchanged

(***************************************************************************)
(* The specifications.                                                     *)
(***************************************************************************)
Init ==
    \/ InitConfidence
    \/ InitDeepValidate
    \/ InitAuditBlueprints
    \/ InitValidateBlueprints
    \/ InitValidateChunks
    \/ InitCheckFkCoverage
    \/ InitVerifyAuthFixes

Next ==
    \/ CS_Chunk \/ CS_ChunksDone \/ CS_Score
    \/ DV_Endpoints \/ DV_Pages \/ DV_Chunks \/ DV_CrossCheck \/ DV_Overall
    \/ AB_Endpoints \/ AB_Auth \/ AB_Pages \/ AB_Exit
    \/ VB_Load \/ VB_Routes \/ VB_QueryParams \/ VB_Unauthed \/ VB_WriteBodies \/ VB_BodyBleed
    \/ VB_PathParams \/ VB_Auth \/ VB_Pages \/ VB_Return \/ VB_Exit
    \/ VC_Chunk \/ VC_Summary
    \/ CK_Gaps \/ CK_Report
    \/ VA_Inherited \/ VA_Public \/ VA_Regression

Spec == Init /\ [][Next]_vars

\* the scoring sections of confidence_score.py and deep_validate.py on counters of any size
InitScoring == InitConfidenceScoring \/ InitDeepScoring

NextScoring == CS_Score \/ DV_Overall

SpecScoring == InitScoring /\ [][NextScoring]_vars

(***************************************************************************)
(* Properties of the blueprint audits.                                     *)
(***************************************************************************)
\* audit_blueprints.py is past its endpoint loop
AbPastEndpoints == script = "audit_blueprints" /\ pc \in {"auth", "pages", "exit", "done"}

\* audit_blueprints.py is past its auth rule
AbPastAuth == script = "audit_blueprints" /\ pc \in {"pages", "exit", "done"}

\* the running validate function is past the section `name`
VbPast(name) ==
    /\ script = "validate_blueprints"
    /\ pc \in {"sections", "return"}
    /\ \E k \in 1..Len(Sections(vb.framework)) :
          Sections(vb.framework)[k] = name /\ k < vb.sec

\* how many of the errors of audit_blueprints.py have this code for this endpoint
ErrorsFor(code, method, path) ==
    Cardinality({k \in 1..Len(ab.errors) :
                    /\ ab.errors[k].code = code
                    /\ ab.errors[k].method = method
                    /\ ab.errors[k].path = path})

\* how many endpoints of the blueprint with this method and path have a requestBody
\* that is not null
BodiesFor(method, path) ==
    Cardinality({k \in 1..Len(bp.endpoints) :
                    /\ bp.endpoints[k].method = method
                    /\ bp.endpoints[k].path = path
                    /\ ~bp.endpoints[k].requestBody.isNull})

\* validate_blueprints.py printed BODY_BLEED for this endpoint
BleedPrinted(ep) ==
    \E k \in 1..Len(vb.out) :
        /\ vb.out[k].label = "BODY_BLEED"
        /\ vb.out[k].method = ep.method
        /\ vb.out[k].path = ep.path

\* C3 as stated: in every blueprint audit, every endpoint with method GET, DELETE or
\* HEAD and a requestBody that is not null yields BODY_BLEED, an empty field list
\* included, and an endpoint with method GET and a null requestBody never yields it.
C3_AsStated ==
    /\ AbPastEndpoints =>
          \A k \in 1..Len(bp.endpoints) :
             LET ep == bp.endpoints[k]
             IN  /\ ep.method \in {"GET", "DELETE", "HEAD"} =>
                       ErrorsFor("BODY_BLEED", ep.method, ep.path) >= BodiesFor(ep.method, ep.path)
                 /\ ep.method = "GET" =>
                       ErrorsFor("BODY_BLEED", ep.method, ep.path) <= BodiesFor(ep.method, ep.path)
    /\ VbPast("body_bleed") =>
          \A k \in 1..Len(SortedItems(bp)) :
             LET ep == SortedItems(bp)[k]
             IN  /\ ep.method \in {"GET", "DELETE", "HEAD"} /\ ~ep.requestBody.isNull
                       => BleedPrinted(ep)
                 /\ ep.method = "GET" /\ ep.requestBody.isNull => ~BleedPrinted(ep)

\* the counters show no defect that the score is charged for
NoOtherDefect ==
    /\ cnt.ep_with_zero_get_fk = 0
    /\ cnt.ep_with_crosschunk_fk = 0
    /\ cnt.ep_page_routes = 0
    /\ cnt.total_pages = cnt.locator_pages

CsDone == script = "confidence_score" /\ pc = "done"

\* C4: for a blueprint whose auth is null, audit_blueprints reports AUTH_INCOMPLETE
\* (once), and confidence_score, when the chunks show no other defect, scores exactly
\* 80: 20 is charged for the missing auth and the 15 of the missing seed credentials
\* is not charged on top of it.
C4_NullAuthScores80 ==
    /\ AbPastAuth /\ bp.auth.isNull =>
          Cardinality({k \in 1..Len(ab.errors) : ab.errors[k].code = "AUTH_INCOMPLETE"}) = 1
    /\ CsDone /\ bp.auth.isNull /\ NoOtherDefect =>
          /\ score = 80
          /\ "NO auth detected" \in Range(risks)
          /\ "No defaultEmail in auth" \notin Range(risks)

\* confidence_score has scored a null-auth blueprint whose chunks hold endpoints and
\* show no defect
C4_Witness ==
    /\ CsDone
    /\ bp.auth.isNull
    /\ NoOtherDefect
    /\ cnt.total_ep > 0
    /\ score = 80

\* the auth penalties the specification lists: 20 for a missing auth, 15 for missing
\* seed credentials of an auth that is there
ListedAuthPenalty(auth) ==
    IF auth.isNull THEN 20 ELSE IF ~Truthy(auth.defaultEmail) THEN 15 ELSE 0

\* the penalties of the counters: 5 per unresolvable required FK, 2 per cross-chunk
\* FK, 3 per page-route endpoint up to 15, 2 per page without locators
CounterPenalties(c) ==
    5 * c.ep_with_zero_get_fk + 2 * c.ep_with_crosschunk_fk
    + (IF 3 * c.ep_page_routes > 15 THEN 15 ELSE 3 * c.ep_page_routes)
    + 2 * (c.total_pages - c.locator_pages)

\* x clamped to [0, 100]
Clamped(x) == IF x < 0 THEN 0 ELSE IF x > 100 THEN 100 ELSE x

\* C5 as stated: the score is 100 minus the listed penalties (20 for a missing auth,
\* 15 for missing seed credentials, 5 per unresolvable required FK, 2 per cross-chunk
\* FK, the capped page-route penalty, 2 per page without locators), clamped.
C5_AsStated ==
    CsDone => score = Clamped(100 - ListedAuthPenalty(bp.auth) - CounterPenalties(cnt))

\* C5: the score is 100 minus the listed penalties minus 5 more when the auth is a
\* bearer_jwt auth without tokenResponsePath, clamped to [0, 100]; the 15 of the seed
\* credentials is charged only to an auth that is there.
C5_ScoreFormula ==
    CsDone =>
        score = Clamped(100 - ListedAuthPenalty(bp.auth)
                            - (IF ~bp.auth.isNull /\ bp.auth.tokenType = "bearer_jwt"
                                  /\ ~Truthy(bp.auth.tokenResponsePath) THEN 5 ELSE 0)
                            - CounterPenalties(cnt))

\* a score with the bearer_jwt penalty, every counter penalty and the page-route cap in
\* force
C5_Witness ==
    /\ CsDone
    /\ ~bp.auth.isNull /\ bp.auth.tokenType = "bearer_jwt" /\ ~Truthy(bp.auth.tokenResponsePath)
    /\ cnt.ep_with_zero_get_fk > 0 /\ cnt.ep_with_crosschunk_fk > 0
    /\ cnt.ep_page_routes > 5 /\ cnt.total_pages > cnt.locator_pages
    /\ score > 0

\* C6: the confidence score of confidence_score and the blueprint quality of
\* deep_validate are in 0..100 at every moment, however many findings there are.
C6_ScoresInRange ==
    /\ score \in 0..100
    /\ dv.confidence \in 0..100

\* a score whose penalties add up to more than 100
C6_Witness ==
    /\ CsDone
    /\ ListedAuthPenalty(bp.auth) + CounterPenalties(cnt) > 100
    /\ score = 0

\* C7: the band is HIGH exactly when the score is at least 85, MEDIUM-HIGH exactly
\* from 70 to 84, MEDIUM exactly from 55 to 69 and LOW exactly below 55, for the score
\* of the run and for every score in 0..100.
C7_BandOfScore ==
    /\ CsDone =>
          /\ verdict \in {"HIGH", "MEDIUM-HIGH", "MEDIUM", "LOW"}
          /\ verdict = "HIGH" <=> score >= 85
          /\ verdict = "MEDIUM-HIGH" <=> (70 <= score /\ score < 85)
          /\ verdict = "MEDIUM" <=> (55 <= score /\ score < 70)
          /\ verdict = "LOW" <=> score < 55
    /\ \A s \in 0..100 :
          Band(s) = (IF s >= 85 THEN "HIGH" ELSE IF s >= 70 THEN "MEDIUM-HIGH"
                     ELSE IF s >= 55 THEN "MEDIUM" ELSE "LOW")

\* a score on the lower edge of the HIGH band
C7_Witness ==
    /\ CsDone
    /\ score = 85
    /\ verdict = "HIGH"

DvDone == script = "deep_validate" /\ pc = "done"

\* the counters with one more finding of a penalised category
OneMoreFinding(c) ==
    {[c EXCEPT !.ep_with_zero_get_fk = @ + 1],
     [c EXCEPT !.ep_with_crosschunk_fk = @ + 1],
     [c EXCEPT !.ep_page_routes = @ + 1, !.total_ep = @ + 1],
     [c EXCEPT !.total_pages = @ + 1]}

\* C9: one more unresolvable required FK, cross-chunk FK, page-route endpoint or page
\* without locators never gives a higher confidence score, and one more issue never
\* gives a higher blueprint quality.
C9_ScoreMonotone ==
    /\ CsDone => \A c \in OneMoreFinding(cnt) : ConfidenceScore(bp.auth, c) <= score
    /\ DvDone => Quality(dv.total_issues + 1) <= dv.confidence

\* a score that one more FK finding lowers and that one more page-route endpoint,
\* the cap being reached, leaves as it is
C9_Witness ==
    /\ CsDone
    /\ cnt.ep_page_routes >= 5
    /\ ConfidenceScore(bp.auth, [cnt EXCEPT !.ep_with_zero_get_fk = @ + 1]) < score
    /\ ConfidenceScore(bp.auth, [cnt EXCEPT !.ep_page_routes = @ + 1]) = score

\* the ids of all chunks
ChunkEndpointIds == UNION {IdsOf(chunks[k].endpoints) : k \in 1..Len(chunks)}
ChunkPageIds == UNION {IdsOf(chunks[k].pages) : k \in 1..Len(chunks)}

DvPastCrossCheck == script = "deep_validate" /\ pc \in {"overall", "done"}

\* C10: an endpoint id (a page id) is reported as in no chunk exactly when it is an id
\* of the blueprint and of no chunk; an id that only chunks hold is never reported.
C10_OrphansAreSetDifference ==
    DvPastCrossCheck =>
        /\ \A id \in IdsOf(bp.endpoints) \cup ChunkEndpointIds :
              id \in dv.missing_ep <=> (id \in IdsOf(bp.endpoints) /\ id \notin ChunkEndpointIds)
        /\ \A id \in IdsOf(bp.pages) \cup ChunkPageIds :
              id \in dv.missing_pg <=> (id \in IdsOf(bp.pages) /\ id \notin ChunkPageIds)
        /\ dv.missing_ep \subseteq IdsOf(bp.endpoints)
        /\ dv.missing_pg \subseteq IdsOf(bp.pages)

\* chunks that lack exactly one endpoint id of the blueprint and hold an id of their
\* own: the one id is reported, the other is not
C10_Witness ==
    /\ DvDone
    /\ IdsOf(bp.endpoints) = {"e1", "e2"}
    /\ "e1" \in ChunkEndpointIds /\ "e9" \in ChunkEndpointIds
    /\ dv.missing_ep = {"e2"}

(***************************************************************************)
(* Properties of the chunk and page checks.                                *)
(***************************************************************************)
VcDone == script = "validate_chunks" /\ pc = "done"

DvPastPages == script = "deep_validate" /\ pc \in {"chunks", "crosscheck", "overall", "done"}

\* the number of rows validate_chunks.py has built before those of chunk n
RECURSIVE RowsBefore(_)
RowsBefore(n) ==
    IF n <= 1 THEN 0
    ELSE RowsBefore(n - 1) + Len(chunks[n - 1].endpoints) + Len(chunks[n - 1].pages)

\* the row of endpoint k, and of page k, of chunk n
EndpointRow(n, k) == vc.rows[RowsBefore(n) + k]
PageRow(n, k) == vc.rows[RowsBefore(n) + Len(chunks[n].endpoints) + k]

\* how many of these issues have this category
CountCat(issues, cat) == Cardinality({i \in 1..Len(issues) : issues[i].cat = cat})

\* how many of the page issues of deep_validate.py are of this kind for this route
PageIssuesFor(kind, route) ==
    Cardinality({i \in 1..Len(dv.issues_pages) :
                    dv.issues_pages[i].kind = kind /\ dv.issues_pages[i].ref = route})

\* C11: validate_chunks gives a page exactly one DYNAMIC_ROUTE_NO_PARAMS when its
\* isDynamic is true and its routeParams is empty, and none otherwise; deep_validate
\* reports "isDynamic=true but routeParams=[]" once for each such page and for no other.
C11_DynamicRouteNoParams ==
    /\ VcDone =>
          \A n \in 1..Len(chunks) : \A k \in 1..Len(chunks[n].pages) :
             LET page == chunks[n].pages[k]
             IN  CountCat(PageRow(n, k).issues, "DYNAMIC_ROUTE_NO_PARAMS")
                    = (IF page.isDynamic /\ page.routeParams = <<>> THEN 1 ELSE 0)
    /\ DvPastPages =>
          \A g \in 1..Len(bp.pages) :
             PageIssuesFor("isDynamic=true but routeParams=[]", bp.pages[g].route)
                = Cardinality({h \in 1..Len(bp.pages) :
                                  /\ bp.pages[h].route = bp.pages[g].route
                                  /\ bp.pages[h].isDynamic
                                  /\ bp.pages[h].routeParams = <<>>})

\* validate_chunks has reported a dynamic page without routeParams, with that one
\* finding and no other
C11_Witness ==
    /\ VcDone
    /\ Len(chunks) = 1 /\ Len(chunks[1].pages) = 1
    /\ chunks[1].pages[1].isDynamic /\ chunks[1].pages[1].routeParams = <<>>
    /\ PageRow(1, 1).issues = <<VcIssue("DYNAMIC_ROUTE_NO_PARAMS", <<>>)>>

AbDone == script = "audit_blueprints" /\ pc = "done"

CovPastGaps == script = "check_fk_coverage" /\ pc \in {"report", "done"}

\* a required body field whose name ends in Id or ID, that has no example, and whose
\* resource name is in the path of no GET endpoint of the blueprint
UnresolvableRequiredFk(b, f) ==
    /\ EndsWithId(f.name)
    /\ f.required
    /\ ~Truthy(f.example)
    /\ \A k \in 1..Len(b.endpoints) :
          b.endpoints[k].method = "GET" => ~ResourceIn(Resource(f.name), b.endpoints[k].path)

C13_AsStated ==
    /\ DvPastCrossCheck =>
          \A h \in HashSeeds :
             /\ SetOrder(dv.missing_ep, h) = dv.printed_ep
             /\ SetOrder(dv.missing_pg, h) = dv.printed_pg
    /\ VcDone =>
          /\ vc.summary = SortByCount(<<>>, GroupIssues(<<>>, vc.issues_all))
          /\ \A i \in 1..Len(vc.summary) : \A j \in 1..Len(vc.summary) :
                i < j => Len(vc.summary[i].items) >= Len(vc.summary[j].items)

\* C16 as stated: the documents of the model hold every structurally required field
\* (endpoints, method, path), so no run ends in an exception: a missing example, type,
\* authRequired, defaultEmail, defaultPassword, authCookieName, tokenResponsePath or
\* requestBody never raises.
C16_AsStated == pc # "crashed"

\* validate_blueprints.py has ended, by sys.exit or by an exception
VbEnded == script = "validate_blueprints" /\ pc \in {"done", "crashed"}

\* C14 as stated: audit_blueprints and validate_blueprints end with status 0 exactly
\* when the run recorded no error (no issue), and with a failure status exactly when it
\* recorded one or more; warnings do not count.
C14_AsStated ==
    /\ AbDone => (exit_status = "0" <=> ab.total_errors = 0)
    /\ AbDone => (exit_status = "1" <=> ab.total_errors > 0)
    /\ VbEnded => (exit_status = "0" <=> vb.issues_total = 0)
    /\ VbEnded => (exit_status = "1" <=> vb.issues_total > 0)

\* a chunk that holds an endpoint and a page without a defect
CleanChunk ==
    ChunkDoc(<<Endpoint("e1", "GET", OrdersPath, NullBody)>>, <<Page("p1", OrdersPath, 2)>>,
             <<>>, TRUE)

\* C15 as stated: with no chunk document the chunk-dependent checks are skipped:
\* deep_validate reports no id as missing from the chunks, and the score, band and
\* risks of confidence_score differ from those of a run whose chunks hold entities
\* without a defect.
C15_AsStated ==
    /\ DvPastCrossCheck /\ chunks = <<>> => dv.missing_ep = {} /\ dv.missing_pg = {}
    /\ CsDone /\ chunks = <<>> =>
          <<score, verdict, risks>>
             # <<ConfidenceScore(bp.auth, CountChunk(ZeroCounters, CleanChunk)),
                 Band(ConfidenceScore(bp.auth, CountChunk(ZeroCounters, CleanChunk))),
                 RisksAfterAuth(bp.auth, <<>>)>>

DvPastEndpoints ==
    script = "deep_validate" /\ pc \in {"pages", "chunks", "crosscheck", "overall", "done"}

\* the names of the ":name" tokens of a path, and the names of the pathParams entries
TokenNames(ep) == Range(dynamic(ep.path))
ParamNames(ep) == {ep.pathParams[k].name : k \in 1..Len(ep.pathParams)}

\* C17 as stated: every audit checks the path parameters of every endpoint in both
\* directions.  validate_chunks has one PATH_PARAM_NOT_DECLARED for each token without
\* a pathParams entry and one ORPHAN_PATH_PARAM for each entry that is no token;
\* validate_blueprints and deep_validate have a path-parameter finding for an endpoint
\* exactly when (at least when) its tokens and its pathParams names differ.
C17_AsStated ==
    /\ VcDone =>
          \A n \in 1..Len(chunks) : \A k \in 1..Len(chunks[n].endpoints) :
             LET ep == chunks[n].endpoints[k]
                 toks == dynamic(ep.path)
             IN  /\ CountCat(EndpointRow(n, k).issues, "PATH_PARAM_NOT_DECLARED")
                       = Cardinality({i \in 1..Len(toks) : toks[i] \notin ParamNames(ep)})
                 /\ CountCat(EndpointRow(n, k).issues, "ORPHAN_PATH_PARAM")
                       = Cardinality({i \in 1..Len(ep.pathParams) :
                                         ep.pathParams[i].name \notin TokenNames(ep)})
    /\ VbPast("path_params") =>
          \A k \in 1..Len(SortedItems(bp)) :
             LET ep == SortedItems(bp)[k]
             IN  TokenNames(ep) # ParamNames(ep)
                    <=> \E g \in 1..Len(vb.out) :
                           /\ vb.out[g].label \in {"MISSING_PP", "ORPHAN_PATH_PARAM"}
                           /\ vb.out[g].method = ep.method
                           /\ vb.out[g].path = ep.path
    /\ DvPastEndpoints =>
          \A k \in 1..Len(bp.endpoints) :
             LET ep == bp.endpoints[k]
             IN  TokenNames(ep) # ParamNames(ep)
                    => \E g \in 1..Len(dv.issues_ep) :
                          /\ dv.issues_ep[g].kind = "dynamic path but pathParams=[]"
                          /\ dv.issues_ep[g].ref = <<Upper(ep.method), ep.path>>

\* a write-method endpoint whose requestBody is null or has no field and whose
\* 'METHOD path' is not on the allow-list
BodylessWrite(ep) ==
    /\ ep.method \in {"POST", "PUT", "PATCH"}
    /\ ep.requestBody.isNull \/ ep.requestBody.fields = <<>>
    /\ <<ep.method, ep.path>> \notin LEGITIMATELY_EMPTY_BODY

\* C18 as stated: validate_chunks gives an endpoint one REQ_BODY_NULL or
\* REQ_BODY_FIELDS_EMPTY, and validate_blueprints prints NO_BODY or EMPTY_BODY_FIELDS
\* for it, exactly when it is a write-method endpoint without body fields that is not
\* on the allow-list.
C18_AsStated ==
    /\ VcDone =>
          \A n \in 1..Len(chunks) : \A k \in 1..Len(chunks[n].endpoints) :
             CountCat(EndpointRow(n, k).issues, "REQ_BODY_NULL")
                + CountCat(EndpointRow(n, k).issues, "REQ_BODY_FIELDS_EMPTY")
                = (IF BodylessWrite(chunks[n].endpoints[k]) THEN 1 ELSE 0)
    /\ VbPast("write_bodies") =>
          \A k \in 1..Len(SortedItems(bp)) :
             LET ep == SortedItems(bp)[k]
             IN  BodylessWrite(ep)
                    <=> \E g \in 1..Len(vb.out) :
                           /\ vb.out[g].label \in {"NO_BODY", "EMPTY_BODY_FIELDS", "EMPTY_FIELDS"}
                           /\ vb.out[g].method = ep.method
                           /\ vb.out[g].path = ep.path

\* a body field without an example value: the key is absent, null or the empty string
LacksExample(f) == f.example \in {Missing, Absent, ""}

\* audit_blueprints.py has a finding with this code for this field of this endpoint
ExampleFinding(list, code, ep, f) ==
    \E g \in 1..Len(list) :
       /\ list[g].code = code
       /\ list[g].method = ep.method
       /\ list[g].path = ep.path
       /\ list[g].detail = f.name

\* the fields of the blueprint that a finding about this field of this endpoint may be about
SameField(ep, f) ==
    UNION {{AbFields(bp.endpoints[k])[i] : i \in 1..Len(AbFields(bp.endpoints[k]))} :
              k \in {j \in 1..Len(bp.endpoints) :
                        bp.endpoints[j].method = ep.method /\ bp.endpoints[j].path = ep.path}}
    \cap {g \in UNION {Range(AbFields(bp.endpoints[k])) : k \in 1..Len(bp.endpoints)} :
             g.name = f.name}

\* C19 as stated: a body field gets a missing-example finding exactly when it has no
\* example value: an error of audit_blueprints when it is required, a warning when it
\* is optional, one BODY_FIELD_NO_EXAMPLE of validate_chunks; a field that has an
\* example gets none.
C19_AsStated ==
    /\ AbPastEndpoints =>
          \A k \in 1..Len(bp.endpoints) : \A i \in 1..Len(AbFields(bp.endpoints[k])) :
             LET ep == bp.endpoints[k]
                 f == AbFields(ep)[i]
             IN  /\ LacksExample(f) /\ f.required => ExampleFinding(ab.errors, "NO_FIELD_EXAMPLE", ep, f)
                 /\ LacksExample(f) /\ ~f.required => ExampleFinding(ab.warnings, "WARN_NO_EXAMPLE", ep, f)
                 /\ (\A g \in SameField(ep, f) : ~LacksExample(g)) =>
                       /\ ~ExampleFinding(ab.errors, "NO_FIELD_EXAMPLE", ep, f)
                       /\ ~ExampleFinding(ab.warnings, "WARN_NO_EXAMPLE", ep, f)
    /\ VcDone =>
          \A n \in 1..Len(chunks) : \A k \in 1..Len(chunks[n].endpoints) :
             LET fields == AbFields(chunks[n].endpoints[k])
             IN  CountCat(EndpointRow(n, k).issues, "BODY_FIELD_NO_EXAMPLE")
                    = Cardinality({i \in 1..Len(fields) : LacksExample(fields[i])})

\* the route table of the running validate function
ScannedRoutes ==
    UNION {{<<vb.source_routes[k].methods[j], vb.source_routes[k].path>> :
               j \in 1..Len(vb.source_routes[k].methods)} :
           k \in 1..Len(vb.source_routes)}

\* the (method, path) pairs of the blueprint
BlueprintPairs == {<<bp.endpoints[k].method, bp.endpoints[k].path>> : k \in 1..Len(bp.endpoints)}

\* validate_blueprints.py printed the finding `label` for the pair
FindingPrinted(label, pair) ==
    \E k \in 1..Len(vb.out) :
        /\ vb.out[k].level = "issue"
        /\ vb.out[k].label = label
        /\ vb.out[k].method = pair[1]
        /\ vb.out[k].path = pair[2]

\* a validate function that scans a source tree has printed its route section
VbRoutesCompared ==
    \/ vb.framework = "nextjs" /\ VbPast("routes")
    \/ vb.framework = "express" /\ VbPast("unauthed")

C20_WitnessPhantom ==
    /\ vb.framework = "nextjs" /\ VbPast("routes")
    /\ \E pair \in BlueprintPairs : FindingPrinted("PHANTOM_ENDPOINT", pair)

\* validate_express has scanned a route that the blueprint lacks
C20_WitnessExpress ==
    /\ vb.framework = "express" /\ VbPast("unauthed")
    /\ ScannedRoutes \ BlueprintPairs # {}

\* some GET endpoint of the whole blueprint has the resource name of the field in its path
ResolvableInBlueprint(b, f) ==
    \E k \in 1..Len(b.endpoints) :
        b.endpoints[k].method = "GET" /\ ResourceIn(Resource(f.name), b.endpoints[k].path)

\* the gaps that check_fk_coverage is to list for the fields that `wanted` selects, in
\* the order of the endpoints and of their fields
GapsWanted(wanted(_, _)) ==
    FlatMap(LAMBDA ep :
               FlatMap(LAMBDA f : IF EndsWithId(f.name) /\ wanted(ep, f)
                                  THEN <<Gap(ep, f.name, get_paths(bp, ep))>> ELSE <<>>,
                       AbFields(ep)),
            bp.endpoints)

\* a GET endpoint of the chunk of ep has the resource name of the field in its path
ResolvableInChunk(ep, f) == CanResolve(Resource(f.name), get_paths(bp, ep))

\* C21 as stated: every FK-named body field gets exactly one outcome: no finding when a
\* GET endpoint of the same chunk has the resource name in its path; otherwise a
\* required field is reported as unresolvable (the failing list) only when no GET
\* endpoint of the whole blueprint has it, and not when one of another chunk has it; an
\* optional field is reported as advisory only.
C21_AsStated ==
    CovPastGaps =>
        /\ cov.required_gaps =
              GapsWanted(LAMBDA ep, f : /\ f.required
                                        /\ ~ResolvableInChunk(ep, f)
                                        /\ ~ResolvableInBlueprint(bp, f))
        /\ cov.optional_gaps =
              GapsWanted(LAMBDA ep, f : ~f.required /\ ~ResolvableInChunk(ep, f))

\* the same without the cross-chunk case: a required field that no GET endpoint of its
\* chunk resolves is in the failing list, wherever else the resource is
C21_SameChunkOnly ==
    CovPastGaps =>
        /\ cov.required_gaps =
              GapsWanted(LAMBDA ep, f : f.required /\ ~ResolvableInChunk(ep, f))
        /\ cov.optional_gaps =
              GapsWanted(LAMBDA ep, f : ~f.required /\ ~ResolvableInChunk(ep, f))

\* validate_blueprints.py printed the line `label` for the method and path (a route has
\* the method "")
LinePrinted(label, method, path) ==
    \E k \in 1..Len(vb.out) :
        vb.out[k].label = label /\ vb.out[k].method = method /\ vb.out[k].path = path

\* the source route that validate_nextjs compares the query parameters of ep with
ComparedQps(ep) ==
    {vb.source_routes[k].qps : k \in {j \in 1..Len(vb.source_routes) :
                                        /\ vb.source_routes[j].path = ep.path
                                        /\ ep.method \in Range(vb.source_routes[j].methods)
                                        /\ vb.source_routes[j].qps # <<>>}}

\* the page half of C22 as stated
C22_PagesIndependent ==
    VbPast("pages") =>
        \A k \in 1..Len(bp.pages) :
            LinePrinted("NO_LOCATORS", "", bp.pages[k].route) <=> bp.pages[k].nLocators = 0

\* the query-parameter half of C22 as stated
C22_QueryParamsIndependent ==
    vb.framework = "nextjs" /\ VbPast("query_params") =>
        \A k \in 1..Len(SortedItems(bp)) :
            LET ep == SortedItems(bp)[k]
            IN  \A qps \in ComparedQps(ep) :
                   ep.method \in READ_METHODS =>
                      (LinePrinted("EXTRA_QP", ep.method, ep.path)
                          <=> \E q \in Range(ep.queryParams) : q \notin Range(qps))

\* C22 as stated: whether a rule emits its finding for an entity depends only on the
\* entity: a page with zero locators gets NO_LOCATORS whether or not its route is
\* flagged BAD_ROUTE, and an endpoint whose blueprint has a query parameter that the
\* source does not read gets EXTRA_QP whether or not it also gets MISSING_QP.
C22_AsStated == C22_PagesIndependent /\ C22_QueryParamsIndependent

\* a sequence in the opposite order
Reverse(s) == [k \in 1..Len(s) |-> s[Len(s) + 1 - k]]

\* the chunk documents with the endpoints and the pages of every chunk in the opposite
\* order (the chunk files themselves are read in sorted order)
PermutedChunks(chs) ==
    [n \in 1..Len(chs) |->
        [chs[n] EXCEPT !.endpoints = Reverse(@), !.pages = Reverse(@)]]

\* the ISSUES SUMMARY that validate_chunks.py prints for these chunk documents
VcSummaryOf(chs) ==
    LET rows == FlatMap(LAMBDA n : ChunkRows(n, chs[n]), [n \in 1..Len(chs) |-> n])
    IN  SortByCount(<<>>, GroupIssues(<<>>, SelectSeq(rows, LAMBDA r : r.issues # <<>>)))

\* C23 as stated, for the summary of validate_chunks: the order of the report is a
\* function of the set of findings, so the chunk documents with their entities in
\* another order yield the report of this run, category for category and line for line.
C23_AsStated ==
    VcDone => VcSummaryOf(PermutedChunks(chunks)) = vc.summary

\* the report of this run has the categories with the most occurrences first, and
\* those with as many occurrences in the order the run met them
C23_StableByCount ==
    VcDone =>
        /\ vc.summary = VcSummaryOf(chunks)
        /\ \A i, j \in 1..Len(vc.summary) :
              i < j => Len(vc.summary[i].items) >= Len(vc.summary[j].items)

\* the pages of audit_locators.py in the opposite order, the locators of each page too
PermutedPages(pls) ==
    [g \in 1..Len(pls) |-> [pls[Len(pls) + 1 - g] EXCEPT !.locs = Reverse(@)]]

\* the report of audit_locators.py for these pages: the categories in the order they
\* are printed, each with the route and the name of its locators
LocReportOf(pls) ==
    LET P == FlatMap(LAMBDA pg : PageEntries(pg.route, pg.locs, pg.locs), pls)
        rep == SortByCount(<<>>, GroupByCat(<<>>, P, 1))
    IN  [k \in 1..Len(rep) |->
            [cat |-> rep[k].cat,
             items |-> [i \in 1..Len(rep[k].items) |->
                           <<P[rep[k].items[i]].route, P[rep[k].items[i]].name>>]]]

\* the same statement for the report of audit_locators.py
C23_LocatorsAsStated ==
    LocDone =>
        /\ LocReportOf(page_locators)
              = [k \in 1..Len(report) |->
                    [cat |-> report[k].cat,
                     items |-> [i \in 1..Len(report[k].items) |->
                                   <<PROBLEMS[report[k].items[i]].route,
                                     PROBLEMS[report[k].items[i]].name>>]]]
        /\ LocReportOf(PermutedPages(page_locators)) = LocReportOf(page_locators)

\* the code is a heading lookup whose name ends in "(": the "(" is the last character of
\* the name, or of the code
HeadingNameEndsParen(pw) ==
    /\ HasHeading(pw)
    /\ \E i \in 1..Len(pw) : \E j \in (i + 1)..Len(pw) :
          /\ pw[i] = "', { name: '"
          /\ pw[j] = "("
          /\ j = Len(pw) \/ pw[j + 1] \in {"' })", "')"}

\* C24 as stated: HEADING_PARTIAL is emitted for every heading locator whose name ends
\* in a "(", and for no other locator.
C24_AsStated ==
    LocDone =>
        \A id \in AllLocs :
            FindingsOf(id, "HEADING_PARTIAL") # {}
               <=> HeadingNameEndsParen(Strip(LocAt(id).playwrightCode))

\* no locator of any audit gets HEADING_PARTIAL
C24_NeverEmitted ==
    \A n \in 1..Len(PROBLEMS) : \A k \in 1..Len(PROBLEMS[n].problems) :
        PROBLEMS[n].problems[k].cat # "HEADING_PARTIAL"

\* the route starts with the separator "/"
StartsWithSlash(route) == route # <<>> /\ route[1] \in LeadingSlashTokens

\* C25 as stated: in validate_nextjs and in validate_remix alike, BAD_ROUTE is emitted
\* for every page whose route does not start with "/", a relative route that holds a
\* "/" included, and for no page whose route starts with "/".
C25_AsStated ==
    VbPast("pages") =>
        \A k \in 1..Len(bp.pages) :
            LinePrinted("BAD_ROUTE", "", bp.pages[k].route)
               <=> ~StartsWithSlash(bp.pages[k].route)

\* the same for validate_remix alone
C25_RemixOnly ==
    vb.framework = "remix" /\ VbPast("pages") =>
        \A k \in 1..Len(bp.pages) :
            LinePrinted("BAD_ROUTE", "", bp.pages[k].route)
               <=> ~StartsWithSlash(bp.pages[k].route)

\* the field name without its last token, the suffix Id or ID, in lower case
TrailingResource(fname) ==
    [k \in 1..(Len(fname) - 1) |->
        IF fname[k] \in {"Id", "ID"} THEN "id" ELSE LowerToken(fname[k])]

\* the name is not empty and is a substring of the path in lower case; no path of the
\* model holds two name tokens in a row
SubstringOf(resource, p) ==
    /\ Len(resource) = 1
    /\ \E k \in 1..Len(p) : resource[1] \in WordsIn(LowerToken(p[k]))

\* the field resolves as C26 states it
ResolvesAsStated(ep, f) ==
    \E k \in 1..Len(get_paths(bp, ep)) :
        SubstringOf(TrailingResource(f.name), get_paths(bp, ep)[k])

\* C26 as stated: the resource name of an FK field is the field name without its
\* trailing Id/ID, in lower case, an Id elsewhere in the name being kept, and the field
\* resolves (is in no gap list) exactly when that name is not empty and is a substring,
\* letter case apart, of the path of a GET endpoint of the same chunk.
C26_AsStated ==
    CovPastGaps =>
        /\ cov.required_gaps
              = GapsWanted(LAMBDA ep, f : f.required /\ ~ResolvesAsStated(ep, f))
        /\ cov.optional_gaps
              = GapsWanted(LAMBDA ep, f : ~f.required /\ ~ResolvesAsStated(ep, f))

\* the same for the fields whose name holds Id or ID only as its suffix, and something
\* before it
C26_SuffixOnlyNames ==
    CovPastGaps =>
        \A k \in 1..Len(bp.endpoints) : \A i \in 1..Len(AbFields(bp.endpoints[k])) :
            LET ep == bp.endpoints[k]
                f == AbFields(ep)[i]
            IN  /\ EndsWithId(f.name)
                /\ Len(f.name) > 1
                /\ \A j \in 1..(Len(f.name) - 1) : f.name[j] \notin {"Id", "ID"}
                => /\ Resource(f.name) = TrailingResource(f.name)
                   /\ ResolvableInChunk(ep, f) <=> ResolvesAsStated(ep, f)

\* C27: when the locator audit is done, every entry of PROBLEMS is in strict_failures,
\* in likely_failures or in harmless; harmless shares no entry with the other two; and
\* the three counts add up to at least the number of entries (an entry may be both a
\* strict failure and a conditional guard).
C27_BucketsCover ==
    LocDone =>
        /\ \A n \in 1..Len(PROBLEMS) :
              PROBLEMS[n] \in Range(strict_failures) \cup Range(likely_failures)
                              \cup Range(harmless)
        /\ Range(harmless) \cap (Range(strict_failures) \cup Range(likely_failures)) = {}
        /\ Len(strict_failures) + Len(likely_failures) + Len(harmless) >= Len(PROBLEMS)

\* a finished audit with an entry that is both a strict failure and a conditional guard,
\* next to a harmless one: the counts add up to more than the entries
C27_Witness ==
    /\ LocDone
    /\ \E n \in 1..Len(PROBLEMS) :
          PROBLEMS[n] \in Range(strict_failures) /\ PROBLEMS[n] \in Range(likely_failures)
    /\ harmless # <<>>
    /\ Len(strict_failures) + Len(likely_failures) + Len(harmless) > Len(PROBLEMS)

\* no chunk holds the endpoint
Unassigned(ep) == ep_to_domain(ep.id) = Missing

\* check_fk_coverage lists the field of the endpoint as a gap without same-chunk GET
\* endpoints: among the required gaps when it is required, among the optional ones
\* otherwise
ListedAsBareGap(ep, f) ==
    Gap(ep, f.name, <<>>) \in Range(IF f.required THEN cov.required_gaps
                                    ELSE cov.optional_gaps)

\* C28 as stated: an endpoint that no chunk holds has no same-chunk GET endpoint, so
\* each of its FK-named fields is reported as a gap, also when a GET endpoint of the
\* blueprint has the resource name in its path.
C28_AsStated ==
    CovPastGaps =>
        \A k \in 1..Len(bp.endpoints) :
            LET ep == bp.endpoints[k]
            IN  Unassigned(ep) =>
                   /\ get_paths(bp, ep) = <<>>
                   /\ \A i \in 1..Len(AbFields(ep)) :
                         EndsWithId(AbFields(ep)[i].name) => ListedAsBareGap(ep, AbFields(ep)[i])

\* C28: the same when no chunk has the domain "?", the name the script gives the
\* domain of an endpoint that no chunk holds; the GET endpoints of a chunk of that domain
\* are the same-chunk GET endpoints of every such endpoint.
C28_UnassignedEndpointGaps ==
    CovPastGaps =>
        \A k \in 1..Len(bp.endpoints) :
            LET ep == bp.endpoints[k]
                marked == {e \in Range(bp.endpoints) : e.method = "GET" /\ ep_to_domain(e.id) = "?"}
            IN  Unassigned(ep) =>
                   /\ Range(get_paths(bp, ep)) = {e.path : e \in marked}
                   /\ marked = {} =>
                         \A i \in 1..Len(AbFields(ep)) :
                            EndsWithId(AbFields(ep)[i].name)
                               => ListedAsBareGap(ep, AbFields(ep)[i])

\* two endpoints that no chunk holds, GET /customers and one with the required field
\* customerId, which is reported as a gap; the chunk that exists holds another endpoint
C28_Witness ==
    /\ script = "check_fk_coverage" /\ pc = "done"
    /\ Len(bp.endpoints) = 2 /\ Len(chunks) = 0
    /\ bp.endpoints[1].method = "GET" /\ bp.endpoints[1].path = CustomersPath
    /\ Unassigned(bp.endpoints[1]) /\ Unassigned(bp.endpoints[2])
    /\ ResolvableInBlueprint(bp, Field(FkCustomer, TRUE, Missing))
    /\ cov.required_gaps = <<Gap(bp.endpoints[2], FkCustomer, <<>>)>>

\* the body fields of the blueprint, as <<endpoint number, field number>>
FieldPairs ==
    UNION {{<<k, i>> : i \in 1..Len(AbFields(bp.endpoints[k]))} : k \in 1..Len(bp.endpoints)}

FieldAt(q) == AbFields(bp.endpoints[q[1]])[q[2]]

\* the field's name ends in Id or ID and the field lacks an example
DefectiveFk(q) == EndsWithId(FieldAt(q).name) /\ ~Truthy(FieldAt(q).example)

\* the fields of the blueprint that print as the field q does: same method, path, name
PrintedAlike(q) ==
    {r \in FieldPairs : /\ bp.endpoints[r[1]].method = bp.endpoints[q[1]].method
                        /\ bp.endpoints[r[1]].path = bp.endpoints[q[1]].path
                        /\ FieldAt(r).name = FieldAt(q).name}

\* how many entries of the list are the finding `code` for the field q
FindingsFor(list, code, q) ==
    Cardinality({n \in 1..Len(list) :
                    list[n] = Finding(code, bp.endpoints[q[1]].method,
                                      bp.endpoints[q[1]].path, FieldAt(q).name)})

\* C29: in the blueprint audit a required body field whose name ends in Id/ID and that
\* lacks an example adds two errors, NO_FIELD_EXAMPLE and FK_NO_EXAMPLE; an optional
\* one adds the warning WARN_NO_EXAMPLE and the error FK_NO_EXAMPLE; so the error
\* count is at least two per required and one per optional such field, and one
\* optional such field makes the exit status a failure.
C29_FkFieldCountedTwice ==
    /\ AbPastEndpoints =>
          \A q \in FieldPairs :
              DefectiveFk(q) =>
                 LET alike == {r \in PrintedAlike(q) : DefectiveFk(r)}
                 IN  /\ FindingsFor(ab.errors, "FK_NO_EXAMPLE", q) = Cardinality(alike)
                     /\ FindingsFor(ab.errors, "NO_FIELD_EXAMPLE", q)
                           = Cardinality({r \in alike : FieldAt(r).required})
                     /\ FindingsFor(ab.warnings, "WARN_NO_EXAMPLE", q)
                           = Cardinality({r \in alike : ~FieldAt(r).required})
    /\ AbDone =>
          LET defective == {q \in FieldPairs : DefectiveFk(q)}
          IN  /\ ab.total_errors >= Cardinality(defective)
                                    + Cardinality({q \in defective : FieldAt(q).required})
              /\ defective # {} => exit_status = "1"

\* an audit of one optional FK field without example and nothing else: one warning, one
\* error, exit status 1
C29_Witness ==
    /\ AbDone
    /\ Cardinality(FieldPairs) = 1
    /\ \A q \in FieldPairs : DefectiveFk(q) /\ ~FieldAt(q).required
    /\ ab.total_errors = 1 /\ ab.total_warnings = 1
    /\ exit_status = "1"

\* an audit of one required FK field without example and nothing else: two errors for
\* one defective field
C29_WitnessRequired ==
    /\ AbDone
    /\ Cardinality(FieldPairs) = 1
    /\ \A q \in FieldPairs : DefectiveFk(q) /\ FieldAt(q).required
    /\ ab.total_errors = 2 /\ ab.total_warnings = 0
    /\ exit_status = "1"

\* an example that is there and is falsy: 0, false or the empty string
FalsyPresent(ex) == ex \in {JsonZero, JsonFalse, ""}

\* the example as null when it is there and falsy
NullIfFalsy(x) == IF FalsyPresent(x.example) THEN [x EXCEPT !.example = Missing] ELSE x

\* the endpoint with every falsy example of its fields and path parameters taken out
WithoutFalsyExamples(ep) ==
    [ep EXCEPT !.pathParams = [k \in 1..Len(@) |-> NullIfFalsy(@[k])],
               !.requestBody.fields = [k \in 1..Len(@) |-> NullIfFalsy(@[k])]]

\* the endpoint has a field or path parameter with an example that is there and falsy
HasFalsyExample(ep) ==
    \/ \E k \in 1..Len(ep.pathParams) : FalsyPresent(ep.pathParams[k].example)
    \/ \E k \in 1..Len(ep.requestBody.fields) : FalsyPresent(ep.requestBody.fields[k].example)

\* the list holds the finding `code` for the endpoint and the name
HasFinding(list, code, ep, detail) == Finding(code, ep.method, ep.path, detail) \in Range(list)

\* C30: a body field or path parameter whose example is there and is 0, false or the
\* empty string is reported as one without example: audit_blueprints appends for it
\* NO_PP_EXAMPLE (path parameter), NO_FIELD_EXAMPLE (required field) or WARN_NO_EXAMPLE
\* (optional field), and validate_chunks BODY_FIELD_NO_EXAMPLE, and the findings of the
\* run are those of the same documents with these examples null.
C30_FalsyExampleAsMissing ==
    /\ script = "audit_blueprints" /\ pc = "auth" =>
          /\ ab.errors = FlatMap(LAMBDA ep : AbEndpointErrors(WithoutFalsyExamples(ep)),
                                 bp.endpoints)
          /\ ab.warnings = FlatMap(LAMBDA ep : AbEndpointWarnings(WithoutFalsyExamples(ep)),
                                   bp.endpoints)
          /\ \A k \in 1..Len(bp.endpoints) :
                LET ep == bp.endpoints[k]
                IN  /\ \A i \in 1..Len(ep.pathParams) :
                          FalsyPresent(ep.pathParams[i].example)
                             => HasFinding(ab.errors, "NO_PP_EXAMPLE", ep, <<ep.pathParams[i].name>>)
                    /\ \A i \in 1..Len(AbFields(ep)) :
                          LET f == AbFields(ep)[i]
                          IN  FalsyPresent(f.example) =>
                                 IF f.required
                                 THEN HasFinding(ab.errors, "NO_FIELD_EXAMPLE", ep, f.name)
                                 ELSE HasFinding(ab.warnings, "WARN_NO_EXAMPLE", ep, f.name)
    /\ VcDone =>
          \A k \in 1..Len(vc.rows) :
              LET ch == chunks[vc.rows[k].file]
                  nulled == [ch EXCEPT !.endpoints = [j \in 1..Len(@) |-> WithoutFalsyExamples(@[j])]]
              IN  /\ vc.rows[k] \in Range(ChunkRows(vc.rows[k].file, nulled))
                  /\ vc.rows[k].kind = "endpoint" =>
                        \A j \in 1..Len(ch.endpoints) : \A i \in 1..Len(AbFields(ch.endpoints[j])) :
                            LET ep == ch.endpoints[j]
                                f == AbFields(ep)[i]
                            IN  /\ vc.rows[k].key = <<ep.method, ep.path>>
                                /\ vc.rows[k] = ChunkRows(vc.rows[k].file, ch)[j]
                                /\ FalsyPresent(f.example)
                                => VcIssue("BODY_FIELD_NO_EXAMPLE", f.name) \in Range(vc.rows[k].issues)

\* an audit of a required body field whose example is false: NO_FIELD_EXAMPLE, and the
\* exit status of a run with errors
C30_Witness ==
    /\ AbDone
    /\ Len(bp.endpoints) = 1
    /\ AbFields(bp.endpoints[1]) = <<Field(PlainName, TRUE, JsonFalse)>>
    /\ HasFinding(ab.errors, "NO_FIELD_EXAMPLE", bp.endpoints[1], PlainName)
    /\ exit_status = "1"

\* validate_chunks on a body field whose example is the empty string
C30_WitnessChunks ==
    /\ VcDone
    /\ Len(chunks) = 1 /\ Len(chunks[1].endpoints) = 1
    /\ AbFields(chunks[1].endpoints[1]) = <<Field(PlainName, TRUE, "")>>
    /\ VcIssue("BODY_FIELD_NO_EXAMPLE", PlainName) \in Range(vc.rows[1].issues)

\* an audit of a path parameter whose example is 0
C30_WitnessPathParam ==
    /\ AbDone
    /\ Len(bp.endpoints) = 1
    /\ bp.endpoints[1].pathParams = <<PathParam("id", JsonZero)>>
    /\ HasFinding(ab.errors, "NO_PP_EXAMPLE", bp.endpoints[1], <<"id">>)

====
